---- MODULE Spec2Model ----
(***************************************************************************)
(* Model of the fileTree server: the path confinement of fileService.js    *)
(* (src/unnamed/part_003), the helpers of src/server/helpers.js            *)
(* (sanitizePath, isValidFileName, parseMultipart) and the file            *)
(* operations of the service as the controllers of                         *)
(* src/server/fileController.js call them.                                 *)
(*                                                                         *)
(* Strings are sequences of one-character strings, so that path.normalize, *)
(* the regular expressions of sanitizePath and Buffer.indexOf are computed *)
(* character by character.  The path module is Node's path.posix (the      *)
(* server runs with "node server/server.js" on Linux/Mac): "/" is the only *)
(* separator, a backslash is an ordinary character of a name.              *)
(***************************************************************************)
EXTENDS Integers, Sequences, FiniteSets, TLC

(***************************************************************************)
(* Strings                                                                 *)
(***************************************************************************)
Min(S) == CHOOSE x \in S : \A y \in S : x <= y

SubSeqFrom(s, i) == SubSeq(s, i, Len(s))

\* String.prototype.startsWith
StartsWith(s, p) == Len(p) <= Len(s) /\ SubSeq(s, 1, Len(p)) = p

EndsWith(s, p) == Len(p) <= Len(s) /\ SubSeq(s, Len(s) - Len(p) + 1, Len(s)) = p

\* Buffer.indexOf / String.indexOf: 0-based index of the first occurrence of
\* pat at or after the 0-based offset from, -1 when there is none.
IndexOf(s, pat, from) ==
  LET cands == { i \in from..(Len(s) - Len(pat)) : SubSeq(s, i + 1, i + Len(pat)) = pat }
  IN IF cands = {} THEN -1 ELSE Min(cands)

\* Buffer.slice / String.slice with 0-based start and exclusive end.
Slice(s, start, end) == SubSeq(s, start + 1, end)

\* The segments of a string between occurrences of the one-character separator c.
RECURSIVE SplitOn(_, _)
SplitOn(s, c) ==
  LET i == IndexOf(s, <<c>>, 0)
  IN IF i = -1 THEN <<s>>
     ELSE <<Slice(s, 0, i)>> \o SplitOn(SubSeqFrom(s, i + 2), c)

RECURSIVE JoinWith(_, _)
JoinWith(segs, c) ==
  IF segs = <<>> THEN <<>>
  ELSE IF Len(segs) = 1 THEN segs[1]
  ELSE segs[1] \o <<c>> \o JoinWith(Tail(segs), c)

(***************************************************************************)
(* Node's path.posix                                                       *)
(***************************************************************************)
DotDot == <<".", ".">>

\* normalizeString: resolves "." and ".." segments.  A ".." pops the last
\* kept segment unless there is none or it is itself ".."; then it is kept
\* when allowAboveRoot and dropped otherwise.
RECURSIVE normalizeString(_, _, _)
normalizeString(segs, res, allowAboveRoot) ==
  IF segs = <<>> THEN res
  ELSE LET s == Head(segs)
           nxt == IF s = <<>> \/ s = <<".">> THEN res
                  ELSE IF s = DotDot
                       THEN IF res # <<>> /\ res[Len(res)] # DotDot
                            THEN SubSeq(res, 1, Len(res) - 1)
                            ELSE IF allowAboveRoot THEN Append(res, DotDot) ELSE res
                       ELSE Append(res, s)
       IN normalizeString(Tail(segs), nxt, allowAboveRoot)

\* path.normalize
normalize(p) ==
  IF Len(p) = 0 THEN <<".">>
  ELSE LET isAbsolute == p[1] = "/"
           trailingSeparator == p[Len(p)] = "/"
           body == JoinWith(normalizeString(SplitOn(p, "/"), <<>>, ~isAbsolute), "/")
           rel == IF body = <<>>
                  THEN IF isAbsolute THEN <<>>
                       ELSE IF trailingSeparator THEN <<".", "/">> ELSE <<".">>
                  ELSE IF trailingSeparator THEN body \o <<"/">> ELSE body
       IN IF isAbsolute THEN <<"/">> \o rel ELSE rel

\* path.join of two arguments: the non-empty ones joined by "/", normalized.
join(a, b) ==
  IF Len(a) = 0 /\ Len(b) = 0 THEN <<".">>
  ELSE IF Len(a) = 0 THEN normalize(b)
  ELSE IF Len(b) = 0 THEN normalize(a)
  ELSE normalize(a \o <<"/">> \o b)

\* path.basename(p): the last segment, trailing slashes ignored.
RECURSIVE StripTrailingSlash(_)
StripTrailingSlash(p) ==
  IF Len(p) >= 1 /\ p[Len(p)] = "/" THEN StripTrailingSlash(SubSeq(p, 1, Len(p) - 1)) ELSE p

basename(p) ==
  LET q == StripTrailingSlash(p)
      segs == SplitOn(q, "/")
  IN segs[Len(segs)]

\* An extname that finds no extension
noExtension(p) == <<>>

\* path.extname(p): from the last "." of the last segment; empty when there
\* is no dot, when the dot is the segment's first character, or when the
\* segment is "..".
extname(p) ==
  LET b == basename(p)
      dots == { i \in 1..Len(b) : b[i] = "." }
  IN IF dots = {} THEN <<>>
     ELSE LET startDot == CHOOSE i \in dots : \A j \in dots : j <= i
          IN IF startDot = 1 \/ b = DotDot THEN <<>> ELSE SubSeqFrom(b, startDot)

\* path.basename(p, ext) for ext = path.extname(p): the last segment without
\* the suffix ext (an empty ext strips nothing).
basenameExt(p, ext) ==
  LET b == basename(p)
  IN IF Len(ext) = 0 THEN b
     ELSE IF ext = p THEN <<>>
     ELSE IF EndsWith(b, ext) /\ Len(b) > Len(ext) THEN SubSeq(b, 1, Len(b) - Len(ext))
     ELSE b

\* path.dirname(p)
dirname(p) ==
  IF Len(p) = 0 THEN <<".">>
  ELSE LET hasRoot == p[1] = "/"
           ends == { i \in 1..(Len(p) - 1) :
                       /\ p[i + 1] = "/"
                       /\ \E j \in (i + 2)..Len(p) : p[j] # "/" }
       IN IF ends = {} THEN (IF hasRoot THEN <<"/">> ELSE <<".">>)
          ELSE LET end == CHOOSE i \in ends : \A j \in ends : j <= i
               IN IF hasRoot /\ end = 1 THEN <<"/", "/">> ELSE SubSeq(p, 1, end)

(***************************************************************************)
(* helpers.isValidFileName                                                 *)
(***************************************************************************)
UpperCase == <<"A", "B", "C", "D", "E", "F", "G", "H", "I", "J", "K", "L", "M",
               "N", "O", "P", "Q", "R", "S", "T", "U", "V", "W", "X", "Y", "Z">>
LowerCase == <<"a", "b", "c", "d", "e", "f", "g", "h", "i", "j", "k", "l", "m",
               "n", "o", "p", "q", "r", "s", "t", "u", "v", "w", "x", "y", "z">>

\* String.prototype.toLowerCase on one character
toLowerChar(c) ==
  IF \E i \in 1..26 : UpperCase[i] = c
  THEN LowerCase[CHOOSE i \in 1..26 : UpperCase[i] = c]
  ELSE c

toLowerCase(s) == [i \in 1..Len(s) |-> toLowerChar(s[i])]

\* A character class without the range \x00-\x1f
invalidPunctuation == { "<", ">", ":", "\"", "|", "?", "*" }

\* /[<>:"|?*\x00-\x1f]/ : the control characters a TLA+ string can hold
invalidChars == { "<", ">", ":", "\"", "|", "?", "*", "\t", "\n", "\f", "\r" }

NonZeroDigits == { "1", "2", "3", "4", "5", "6", "7", "8", "9" }

\* The pattern without the flag i
reservedLowerCase(s) ==
  \/ s \in { <<"c", "o", "n">>, <<"p", "r", "n">>, <<"a", "u", "x">>, <<"n", "u", "l">> }
  \/ /\ Len(s) = 4
     /\ SubSeq(s, 1, 3) \in { <<"c", "o", "m">>, <<"l", "p", "t">> }
     /\ s[4] \in { "1", "2", "3", "4", "5", "6", "7", "8", "9" }

\* /^(con|prn|aux|nul|com[1-9]|lpt[1-9])$/i
reservedNames(s) ==
  LET l == toLowerCase(s)
  IN \/ l \in { <<"c", "o", "n">>, <<"p", "r", "n">>, <<"a", "u", "x">>, <<"n", "u", "l">> }
     \/ /\ Len(l) = 4
        /\ SubSeq(l, 1, 3) \in { <<"c", "o", "m">>, <<"l", "p", "t">> }
        /\ l[4] \in NonZeroDigits

MaxNameLength == 255

\* A validator that accepts every name
acceptEveryName(filename) == TRUE

isValidFileName(filename) ==
  /\ Len(filename) # 0
  /\ Len(filename) <= MaxNameLength
  /\ \A i \in 1..Len(filename) : filename[i] \notin invalidChars
  /\ ~reservedNames(basenameExt(filename, extname(filename)))
  /\ \E i \in 1..Len(filename) : filename[i] # "."

(***************************************************************************)
(* helpers.sanitizePath and fileService.resolvePath                        *)
(***************************************************************************)
IsSlash(c) == c = "/" \/ c = "\\"

\* replace(/^(\.\.[\/\\])+/, '')
RECURSIVE StripLeadingDotDot(_)
StripLeadingDotDot(s) ==
  IF Len(s) >= 3 /\ s[1] = "." /\ s[2] = "." /\ IsSlash(s[3])
  THEN StripLeadingDotDot(SubSeqFrom(s, 4))
  ELSE s

\* replace(/[\/\\]\.\.[\/\\]/g, '/'): the matches are found left to right
\* and do not overlap; the replacement text is not scanned again.
RECURSIVE ReplaceEmbeddedDotDot(_)
ReplaceEmbeddedDotDot(s) ==
  IF Len(s) < 4 THEN s
  ELSE IF IsSlash(s[1]) /\ s[2] = "." /\ s[3] = "." /\ IsSlash(s[4])
       THEN <<"/">> \o ReplaceEmbeddedDotDot(SubSeqFrom(s, 5))
       ELSE <<s[1]>> \o ReplaceEmbeddedDotDot(Tail(s))

\* A replace that leaves the leading separators
keepLeadingSlashes(s) == s

\* replace(/^[\/\\]+/, '')
RECURSIVE StripLeadingSlashes(_)
StripLeadingSlashes(s) ==
  IF Len(s) >= 1 /\ IsSlash(s[1]) THEN StripLeadingSlashes(Tail(s)) ELSE s

sanitizePath(userPath) ==
  IF Len(userPath) = 0 THEN <<>>
  ELSE StripLeadingSlashes(ReplaceEmbeddedDotDot(StripLeadingDotDot(normalize(userPath))))

\* path.join(__dirname, 'files') with the server directory /s
ROOT_DIR == <<"/", "s", "/", "f">>

AccessDenied == "Acceso denegado: ruta fuera del directorio permitido"

\* The check of resolvePath: a string prefix test.
PrefixCheck(normalized) == StartsWith(normalized, ROOT_DIR)

\* The check of resolvePath and what it returns: err is "" and path the
\* absolute path, or err is the thrown message.
Checked(normalized) ==
  IF ~PrefixCheck(normalized)
  THEN [err |-> AccessDenied, path |-> <<>>]
  ELSE [err |-> "", path |-> normalized]

\* resolvePath: sanitized, joined to the root, normalized, checked
resolvePath(relativePath) ==
  Checked(normalize(join(ROOT_DIR, sanitizePath(relativePath))))

\* Directory containment: the root itself or a descendant of it.
AtOrBelowRoot(abs) == abs = ROOT_DIR \/ StartsWith(abs, ROOT_DIR \o <<"/">>)

(***************************************************************************)
(* The host filesystem: the calls of fs / fs.promises the service makes.   *)
(* A filesystem maps every existing absolute path to its entry.  Each call *)
(* is atomic (fs.rm is taken to remove a whole subtree in one step) and    *)
(* returns the filesystem after the call with the error it raised, if any. *)
(***************************************************************************)
Entry(type, content) == [type |-> type, content |-> content]
NoEntry == Entry("none", <<>>)

\* The error a failed fs call throws: Node's message is
\* "<code>: <text>, <syscall> '<path>'" followed by " -> '<dest>'" for rename.
FsError(code, syscall, path, dest) ==
  [code |-> code, syscall |-> syscall, path |-> path, dest |-> dest]
NoError == FsError("", "", <<>>, <<>>)

FsResult(err, f, value) == [err |-> err, fs |-> f, value |-> value]

IsDirectory(f, p) == p \in DOMAIN f /\ f[p].type = "directory"
IsFile(f, p) == p \in DOMAIN f /\ f[p].type = "file"

\* The paths strictly below p
Below(f, p) == { q \in DOMAIN f : StartsWith(q, p \o <<"/">>) }

\* The code every call on p raises when p cannot be reached or is absent
LookupCode(f, p) ==
  IF p \in DOMAIN f THEN ""
  ELSE IF dirname(p) \in DOMAIN f /\ f[dirname(p)].type = "file" THEN "ENOTDIR"
  ELSE "ENOENT"

\* A check that finds no path taken
nothingExists(f, p) == FALSE

\* fs.existsSync
existsSync(f, p) == p \in DOMAIN f

\* fs.access
FsAccess(f, p) ==
  IF p \in DOMAIN f THEN FsResult(NoError, f, NoEntry)
  ELSE FsResult(FsError(LookupCode(f, p), "access", p, <<>>), f, NoEntry)

\* A stat that finds a file at every path
statFindsFile(f, p) == FsResult(NoError, f, Entry("file", <<>>))

\* fs.stat
FsStat(f, p) ==
  IF p \in DOMAIN f THEN FsResult(NoError, f, f[p])
  ELSE FsResult(FsError(LookupCode(f, p), "stat", p, <<>>), f, NoEntry)

\* A readdir that finds every directory empty
readdirNothing(f, p) == FsResult(NoError, f, {})

\* fs.readdir: the names of the direct children, as a set
FsReaddir(f, p) ==
  IF p \notin DOMAIN f THEN FsResult(FsError(LookupCode(f, p), "scandir", p, <<>>), f, {})
  ELSE IF f[p].type # "directory" THEN FsResult(FsError("ENOTDIR", "scandir", p, <<>>), f, {})
  ELSE FsResult(NoError, f, { basename(q) : q \in { r \in Below(f, p) : dirname(r) = p } })

\* fs.readFile
FsReadFile(f, p) ==
  IF p \notin DOMAIN f THEN FsResult(FsError(LookupCode(f, p), "open", p, <<>>), f, <<>>)
  ELSE IF f[p].type = "directory" THEN FsResult(FsError("EISDIR", "read", p, <<>>), f, <<>>)
  ELSE FsResult(NoError, f, f[p].content)

\* fs.writeFile: creates the file or replaces the content of an existing one
FsWriteFile(f, p, content) ==
  IF IsDirectory(f, p) THEN FsResult(FsError("EISDIR", "open", p, <<>>), f, <<>>)
  ELSE IF ~IsDirectory(f, dirname(p))
       THEN FsResult(FsError(IF IsFile(f, dirname(p)) THEN "ENOTDIR" ELSE "ENOENT",
                             "open", p, <<>>), f, <<>>)
  ELSE FsResult(NoError,
                [q \in DOMAIN f \cup {p} |-> IF q = p THEN Entry("file", content) ELSE f[q]],
                <<>>)

\* fs.mkdir (not recursive)
FsMkdir(f, p) ==
  IF p \in DOMAIN f THEN FsResult(FsError("EEXIST", "mkdir", p, <<>>), f, <<>>)
  ELSE IF ~IsDirectory(f, dirname(p))
       THEN FsResult(FsError(IF IsFile(f, dirname(p)) THEN "ENOTDIR" ELSE "ENOENT",
                             "mkdir", p, <<>>), f, <<>>)
  ELSE FsResult(NoError,
                [q \in DOMAIN f \cup {p} |-> IF q = p THEN Entry("directory", <<>>) ELSE f[q]],
                <<>>)

\* fs.unlink
FsUnlink(f, p) ==
  IF p \notin DOMAIN f THEN FsResult(FsError(LookupCode(f, p), "unlink", p, <<>>), f, <<>>)
  ELSE IF f[p].type = "directory" THEN FsResult(FsError("EISDIR", "unlink", p, <<>>), f, <<>>)
  ELSE FsResult(NoError, [q \in DOMAIN f \ {p} |-> f[q]], <<>>)

\* A removal of p that leaves what is below it
removeEntryOnly(f, p) == FsResult(NoError, [q \in DOMAIN f \ {p} |-> f[q]], <<>>)

\* fs.rm(p, { recursive: true, force: true }): an absent p is no error
FsRm(f, p) ==
  FsResult(NoError, [q \in DOMAIN f \ ({p} \cup Below(f, p)) |-> f[q]], <<>>)

\* Where a path of the subtree of old lies after old has become new
Moved(q, old, new) == new \o SubSeqFrom(q, Len(old) + 1)

\* fs.rename: rename(2).  An existing file at new is replaced by a file, an
\* existing empty directory by a directory.
FsRename(f, old, new) ==
  LET fail(code) == FsResult(FsError(code, "rename", old, new), f, <<>>)
      gone == {old} \cup Below(f, old)
      kept == (DOMAIN f \ gone) \ {new}
      arrived == { Moved(q, old, new) : q \in gone }
      source(r) == CHOOSE q \in gone : Moved(q, old, new) = r
  IN IF old \notin DOMAIN f THEN fail(LookupCode(f, old))
     ELSE IF ~IsDirectory(f, dirname(new))
          THEN fail(IF IsFile(f, dirname(new)) THEN "ENOTDIR" ELSE "ENOENT")
     ELSE IF new = old THEN FsResult(NoError, f, <<>>)
     ELSE IF StartsWith(new, old \o <<"/">>) THEN fail("EINVAL")
     ELSE IF IsDirectory(f, new) /\ f[old].type = "file" THEN fail("EISDIR")
     ELSE IF IsFile(f, new) /\ f[old].type = "directory" THEN fail("ENOTDIR")
     ELSE IF IsDirectory(f, new) /\ Below(f, new) # {} THEN fail("ENOTEMPTY")
     ELSE FsResult(NoError,
                   [r \in kept \cup arrived |-> IF r \in arrived THEN f[source(r)] ELSE f[r]],
                   <<>>)

(***************************************************************************)
(* String.prototype.localeCompare (the default collation): punctuation,    *)
(* then digits, then letters; letters differing only in case compare       *)
(* lower case first.                                                       *)
(***************************************************************************)
CollationOrder ==
  <<"_", ".", "/", "\\", "0", "1", "2", "3", "4", "5", "6", "7", "8", "9">> \o LowerCase

CollationKey(c) ==
  LET l == toLowerChar(c)
  IN IF \E i \in 1..Len(CollationOrder) : CollationOrder[i] = l
     THEN CHOOSE i \in 1..Len(CollationOrder) : CollationOrder[i] = l
     ELSE 0

IsUpper(c) == \E i \in 1..26 : UpperCase[i] = c

RECURSIVE PrimaryCompare(_, _)
PrimaryCompare(a, b) ==
  IF a = <<>> /\ b = <<>> THEN 0
  ELSE IF a = <<>> THEN -1
  ELSE IF b = <<>> THEN 1
  ELSE IF CollationKey(a[1]) < CollationKey(b[1]) THEN -1
  ELSE IF CollationKey(a[1]) > CollationKey(b[1]) THEN 1
  ELSE PrimaryCompare(Tail(a), Tail(b))

RECURSIVE CaseCompare(_, _)
CaseCompare(a, b) ==
  IF a = <<>> \/ b = <<>> THEN 0
  ELSE IF a[1] = b[1] THEN CaseCompare(Tail(a), Tail(b))
  ELSE IF IsUpper(b[1]) THEN -1 ELSE 1

localeCompare(a, b) ==
  IF PrimaryCompare(a, b) # 0 THEN PrimaryCompare(a, b) ELSE CaseCompare(a, b)

\* A comparator that looks at the names only
nameBefore(a, b) == localeCompare(a.name, b.name) < 0

\* The comparator of children.sort in listFiles
ChildBefore(a, b) ==
  IF a.type = b.type THEN localeCompare(a.name, b.name) < 0
  ELSE a.type = "directory"

\* children.sort(...) of children with distinct names
RECURSIVE SortChildren(_)
SortChildren(S) ==
  IF S = {} THEN <<>>
  ELSE LET first == CHOOSE x \in S : \A y \in S \ {x} : ChildBefore(x, y)
       IN <<first>> \o SortChildren(S \ {first})

\* String(n) of a non-negative integer
DigitChars == <<"0", "1", "2", "3", "4", "5", "6", "7", "8", "9">>

RECURSIVE ToDigits(_)
ToDigits(n) ==
  IF n < 10 THEN <<DigitChars[n + 1]>>
  ELSE ToDigits(n \div 10) \o <<DigitChars[(n % 10) + 1]>>

(***************************************************************************)
(* Messages of the service and of the controllers                          *)
(***************************************************************************)
ListNotFound == "Ruta no encontrada"
EntryNotFound == "Archivo o carpeta no encontrada"
InvalidName == "Nombre de archivo invalido"
RenameConflict == "Ya existe un archivo o carpeta con ese nombre"
DownloadNotFound == "Archivo no encontrado"
UploadInvalidName == "Nombre de archivo invalido: <filename>"
TargetNotFound == "Carpeta de destino no encontrada"
InvalidFolderName == "Nombre de carpeta invalido"
FolderConflict == "Ya existe una carpeta con ese nombre"
MissingParams == "Se requieren oldPath y newName"
MissingPath == "Se requiere el parametro path"
ControllerInvalidName == "Nombre de archivo invalido. No usar caracteres especiales."
RawError == "<message of the fs error>"

NotFoundMessages == { ListNotFound, EntryNotFound, DownloadNotFound, TargetNotFound }

\* One object of a result: an Entry of a listing, or the fields of the
\* result of rename, delete, upload, createFolder or download.
Item(name, hasPath, path, type, size, hasExtension, extension, content) ==
  [name |-> name, hasPath |-> hasPath, path |-> path, type |-> type, size |-> size,
   hasExtension |-> hasExtension, extension |-> extension, content |-> content]

\* What reaches the caller: sendSuccess(res, data) or sendError(res,
\* error.message, code); error is the fs error whose message is sent.
Response(status, code, message, error, data) ==
  [status |-> status, code |-> code, message |-> message, error |-> error, data |-> data]
NoResponse == Response("none", 0, "", NoError, <<>>)
Success(data) == Response("success", 200, "", NoError, data)
Failure(code, message) == Response("error", code, message, NoError, <<>>)
RawFailure(err) == Response("error", 500, RawError, err, <<>>)

(***************************************************************************)
(* State                                                                   *)
(***************************************************************************)
VARIABLES
  rpInput,    \* the relative path handed to resolvePath
  rpTokens,   \* how many tokens rpInput is made of
  rpResult,   \* <<>> before the call, <<r>> with r the outcome of resolvePath
  fs,         \* the host filesystem
  clock,      \* Date.now()
  cl,         \* per request: the operation, its arguments, its locals and where it stands
  resp,       \* per request: the response written
  mpParts,    \* the parts of the form the client sends, in their order
  mpBuffer,   \* the request body the parts are encoded into, <<>> before it is sent
  mpResult,   \* <<>> before the call, <<r>> with r the result of parseMultipart
  nvInput,    \* the name handed to isValidFileName
  nvTokens,   \* how many tokens nvInput is made of
  nvResult,   \* <<>> before the call, <<b>> with b what isValidFileName returns
  rlMap,      \* rateLimitMap: the record {count, resetTime} kept per client address
  rlShadow,   \* the same map in the execution where the cleanup timer never runs
  rlWindow,   \* per client address: the window its requests are counted in
  rlNow,      \* Date.now() of the router
  rlTicks,    \* how many times the router's clock has advanced
  rlLast,     \* the last request the router handled and what became of it
  uc,         \* one upload request: its stream, the controller's locals, the responses
  ssBuffer,   \* the buffer the loop of parseMultipart scans
  ssTokens,   \* how many tokens ssBuffer is made of
  ssScan      \* <<>> before the call, <<s>> with s the state of the loop

rpVars == <<rpInput, rpTokens, rpResult>>
svVars == <<fs, clock, cl, resp>>
mpVars == <<mpParts, mpBuffer, mpResult>>
nvVars == <<nvInput, nvTokens, nvResult>>
rlVars == <<rlMap, rlShadow, rlWindow, rlNow, rlTicks, rlLast>>
ucVars == <<uc>>
ssVars == <<ssBuffer, ssTokens, ssScan>>
vars == <<rpInput, rpTokens, rpResult, fs, clock, cl, resp, mpParts, mpBuffer, mpResult,
          nvInput, nvTokens, nvResult, rlMap, rlShadow, rlWindow, rlNow, rlTicks, rlLast,
          uc, ssBuffer, ssTokens, ssScan>>

(***************************************************************************)
(* The requests.  A request runs its handler from one await to the next:   *)
(* a Start action is the synchronous code up to the first awaited fs call, *)
(* every other action is one awaited fs call with the synchronous code     *)
(* that follows it and reads neither the filesystem nor the clock; code    *)
(* that does (fs.existsSync, Date.now) is an action of its own, since      *)
(* other requests run between the call's completion and it.                *)
(***************************************************************************)
NumClients == 2
Clients == 1..NumClients
MaxClock == 2

P_root == <<>>
P_at == <<"a", ".", "t">>
P_d == <<"d">>
P_x == <<"x">>
P_up_d == <<".", ".", "/", "d">>
N_b == <<"b">>
N_up_b == <<".", ".", "/", "b">>
N_d_b == <<"d", "/", "b">>
N_stamped == <<"a", "_", "1", ".", "t">>
N_bad == <<"a", "<">>

File(filename, content) == [filename |-> filename, content |-> content]

ListPaths == { P_root, P_d, P_at, P_up_d, P_x }
P_slash == <<"/">>
P_d_c == <<"d", "/", "c">>
P_d_DT == <<"d", "/", "D", ".", "T">>
RenameSources == { P_at, P_d, P_x }
RenameNames == { N_b, P_at, N_up_b, N_d_b, N_stamped, N_bad }
\* The rename requests: a source and a new name; the two files of d are
\* renamed to b only
RenameRequests == (RenameSources \X RenameNames) \cup ({ P_d_c, P_d_DT } \X { N_b })
DeletePaths == { P_at, P_d, P_x, P_slash }
DownloadPaths == { P_at, P_d, P_x }
FolderParents == { P_root, P_x }
FolderNames == { N_b, N_stamped, N_up_b, N_bad }
UploadTargets == { P_root, P_x, P_at }
UploadFiles ==
  { <<File(P_at, <<"p">>)>>,
    <<File(P_at, <<"p">>), File(P_at, <<"q", "q">>)>>,
    <<File(N_b, <<"p">>)>>,
    <<File(N_up_b, <<"p">>)>>,
    <<File(N_bad, <<"p">>)>> }

\* The filesystem the server starts on: the server directory /s, the root
\* /s/f holding the file a.t and the directory d with the files c and D.T.
InitialFs ==
  LET dirs == { <<"/">>, <<"/", "s">>, ROOT_DIR, ROOT_DIR \o <<"/", "d">> }
      files == { ROOT_DIR \o <<"/", "a", ".", "t">>, ROOT_DIR \o <<"/", "d", "/", "c">>,
                 ROOT_DIR \o <<"/", "d", "/", "D", ".", "T">> }
  IN [q \in dirs \cup files |->
        IF q \in dirs THEN Entry("directory", <<>>)
        ELSE IF q = ROOT_DIR \o <<"/", "a", ".", "t">> THEN Entry("file", <<"x">>)
        ELSE IF q = ROOT_DIR \o <<"/", "d", "/", "c">> THEN Entry("file", <<"y">>)
        ELSE Entry("file", <<"z", "z">>)]

IdleRequest ==
  [pc |-> "idle", op |-> "none", relativePath |-> <<>>, name |-> <<>>, files |-> <<>>,
   idx |-> 0, abs |-> <<>>, dest |-> <<>>, stats |-> NoEntry, entries |-> {},
   children |-> {}, results |-> <<>>, missing |-> FALSE, after |-> {}]

Request(op, relativePath, name, files) ==
  [IdleRequest EXCEPT !.op = op, !.relativePath = relativePath, !.name = name,
                      !.files = files]

SvIdle ==
  /\ fs = InitialFs
  /\ clock = 1
  /\ cl = [c \in Clients |-> IdleRequest]
  /\ resp = [c \in Clients |-> NoResponse]

SvInit == SvIdle

RpInit == rpInput = <<>> /\ rpTokens = 0 /\ rpResult = <<>>

MpIdle == mpParts = <<>> /\ mpBuffer = <<>> /\ mpResult = <<>>

\* The server has started and no call has been made
NvInit == nvInput = <<>> /\ nvTokens = 0 /\ nvResult = <<>>

\* No buffer has been handed to the loop of parseMultipart
SsInit == ssBuffer = <<>> /\ ssTokens = 0 /\ ssScan = <<>>

\* What became of a request: the address, whether the limiter let it pass,
\* whether it would have without the cleanup timer, whether the timer had
\* removed the record of the address, the status the router answered (0 when
\* it left the answer to a controller) and the controller it ran
Handled(ip, allowed, never, cleaned, status, handler) ==
  [ip |-> ip, allowed |-> allowed, never |-> never, cleaned |-> cleaned,
   status |-> status, handler |-> handler]
NoRequest == Handled("", FALSE, FALSE, FALSE, 0, "")

\* The router has handled no request
RlInit ==
  /\ rlMap = <<>> /\ rlShadow = <<>> /\ rlWindow = <<>>
  /\ rlNow = 0 /\ rlTicks = 0 /\ rlLast = NoRequest

\* No upload request has arrived
UcIdle ==
  [pc |-> "idle", contentType |-> "", totalSize |-> 0, chunks |-> <<>>, paused |-> FALSE,
   sent |-> <<>>, threw |-> FALSE, parsed |-> FALSE, files |-> 0, results |-> 0]

UcInit == uc = UcIdle

Init == RpInit /\ SvInit /\ MpIdle /\ NvInit /\ SsInit /\ RlInit /\ UcInit

\* A request that begins notes in after the requests that have ended
Begun(c, rec) ==
  IF cl[c].pc = "idle" THEN [rec EXCEPT !.after = { d \in Clients : cl[d].pc = "done" }]
  ELSE rec

\* The request goes on as rec
Go(c, rec) == cl' = [cl EXCEPT ![c] = Begun(c, rec)] /\ UNCHANGED resp

\* The request ends as rec with the response r
Finish(c, rec, r) ==
  /\ cl' = [cl EXCEPT ![c] = [Begun(c, rec) EXCEPT !.pc = "done"]]
  /\ resp' = [resp EXCEPT ![c] = r]

\* Whether an fs error says that the path was not there
PathMissing(err) == err.code = "ENOENT"

Tick ==
  /\ clock < MaxClock
  /\ clock' = clock + 1
  /\ UNCHANGED <<fs, cl, resp, rpVars, mpVars, nvVars, rlVars, ucVars, ssVars>>

(*------------------------------ listFiles -------------------------------*)
StartList(c, relativePath) ==
  /\ cl[c].pc = "idle"
  /\ LET rec == Request("list", relativePath, <<>>, <<>>)
         r == resolvePath(relativePath)
     IN IF r.err # "" THEN Finish(c, rec, Failure(500, r.err))
        ELSE Go(c, [rec EXCEPT !.abs = r.path, !.pc = "list_access"])
  /\ UNCHANGED <<fs, clock, rpVars, mpVars, nvVars, rlVars, ucVars, ssVars>>

ListAccess(c) ==
  /\ cl[c].pc = "list_access"
  /\ LET r == FsAccess(fs, cl[c].abs)
     IN IF r.err.code # ""
        THEN Finish(c, [cl[c] EXCEPT !.missing = PathMissing(r.err)],
                    Failure(500, ListNotFound))
        ELSE Go(c, [cl[c] EXCEPT !.pc = "list_stat"])
  /\ UNCHANGED <<fs, clock, rpVars, mpVars, nvVars, rlVars, ucVars, ssVars>>

\* The Entry of a file: name, path, type, size, extension
FileEntry(name, path, stats) ==
  Item(name, TRUE, path, "file", Len(stats.content), TRUE, extname(name), <<>>)

\* The Entry of a child directory: size 0, no extension, no children
DirectoryEntry(name, path) ==
  Item(name, TRUE, path, "directory", 0, FALSE, <<>>, <<>>)

\* path.basename(absolutePath) || 'files' and relativePath || '/'
ListName(abs) == IF basename(abs) = <<>> THEN <<"f", "i", "l", "e", "s">> ELSE basename(abs)
ListRelPath(relativePath) == IF relativePath = <<>> THEN <<"/">> ELSE relativePath

ListStat(c) ==
  /\ cl[c].pc = "list_stat"
  /\ LET r == FsStat(fs, cl[c].abs)
     IN IF r.err.code # ""
        THEN Finish(c, [cl[c] EXCEPT !.missing = PathMissing(r.err)], RawFailure(r.err))
        ELSE IF r.value.type = "file"
        THEN Finish(c, [cl[c] EXCEPT !.stats = r.value],
                    Success(<<FileEntry(ListName(cl[c].abs),
                                        ListRelPath(cl[c].relativePath), r.value)>>))
        ELSE Go(c, [cl[c] EXCEPT !.stats = r.value, !.pc = "list_readdir"])
  /\ UNCHANGED <<fs, clock, rpVars, mpVars, nvVars, rlVars, ucVars, ssVars>>

\* The listing: the directory's own Entry, then its sorted children
Listing(rec, children) ==
  Success(<<Item(ListName(rec.abs), TRUE, ListRelPath(rec.relativePath), "directory",
                 Len(rec.stats.content), FALSE, <<>>, <<>>)>>
          \o SortChildren(children))

ListReaddir(c) ==
  /\ cl[c].pc = "list_readdir"
  /\ LET r == FsReaddir(fs, cl[c].abs)
     IN IF r.err.code # ""
        THEN Finish(c, [cl[c] EXCEPT !.missing = PathMissing(r.err)], RawFailure(r.err))
        ELSE IF r.value = {}
        THEN Finish(c, cl[c], Listing(cl[c], {}))
        ELSE Go(c, [cl[c] EXCEPT !.entries = r.value, !.pc = "list_child"])
  /\ UNCHANGED <<fs, clock, rpVars, mpVars, nvVars, rlVars, ucVars, ssVars>>

\* One turn of the loop over the entries: fs.stat of a child; a child whose
\* stat fails is skipped.  The order of fs.readdir is the host's.
ListChild(c) ==
  /\ cl[c].pc = "list_child"
  /\ \E entry \in cl[c].entries :
       LET entryRelPath == join(cl[c].relativePath, entry)
           entryAbsPath == join(cl[c].abs, entry)
           r == FsStat(fs, entryAbsPath)
           children == IF r.err.code # "" THEN cl[c].children
                       ELSE IF r.value.type = "directory"
                       THEN cl[c].children \cup { DirectoryEntry(entry, entryRelPath) }
                       ELSE cl[c].children \cup { FileEntry(entry, entryRelPath, r.value) }
           rec == [cl[c] EXCEPT !.entries = @ \ {entry}, !.children = children]
       IN IF rec.entries = {} THEN Finish(c, rec, Listing(rec, children))
          ELSE Go(c, rec)
  /\ UNCHANGED <<fs, clock, rpVars, mpVars, nvVars, rlVars, ucVars, ssVars>>

(*------------------------------ renameFile ------------------------------*)
\* The controller's checks, then the service up to await fs.access
StartRename(c, oldPath, newName) ==
  /\ cl[c].pc = "idle"
  /\ LET rec == Request("rename", oldPath, newName, <<>>)
         r == resolvePath(oldPath)
     IN IF oldPath = <<>> \/ newName = <<>> THEN Finish(c, rec, Failure(400, MissingParams))
        ELSE IF ~isValidFileName(newName)
        THEN Finish(c, rec, Failure(400, ControllerInvalidName))
        ELSE IF r.err # "" THEN Finish(c, rec, Failure(500, r.err))
        ELSE Go(c, [rec EXCEPT !.abs = r.path, !.pc = "rename_access"])
  /\ UNCHANGED <<fs, clock, rpVars, mpVars, nvVars, rlVars, ucVars, ssVars>>

RenameAccess(c) ==
  /\ cl[c].pc = "rename_access"
  /\ LET r == FsAccess(fs, cl[c].abs)
     IN IF r.err.code # ""
        THEN Finish(c, [cl[c] EXCEPT !.missing = PathMissing(r.err)],
                    Failure(500, EntryNotFound))
        ELSE Go(c, [cl[c] EXCEPT !.pc = "rename_check"])
  /\ UNCHANGED <<fs, clock, rpVars, mpVars, nvVars, rlVars, ucVars, ssVars>>

\* path.join(path.dirname(oldAbsolutePath), newName)
RenameTarget(oldAbsolutePath, newName) == join(dirname(oldAbsolutePath), newName)

\* isValidFileName, fs.existsSync of the new path, and the call of fs.rename
RenameCheck(c) ==
  /\ cl[c].pc = "rename_check"
  /\ LET newAbsolutePath == RenameTarget(cl[c].abs, cl[c].name)
     IN IF ~isValidFileName(cl[c].name) THEN Finish(c, cl[c], Failure(500, InvalidName))
        ELSE IF existsSync(fs, newAbsolutePath)
        THEN Finish(c, [cl[c] EXCEPT !.dest = newAbsolutePath], Failure(500, RenameConflict))
        ELSE Go(c, [cl[c] EXCEPT !.dest = newAbsolutePath, !.pc = "rename_call"])
  /\ UNCHANGED <<fs, clock, rpVars, mpVars, nvVars, rlVars, ucVars, ssVars>>

\* path.join(path.dirname(oldRelativePath), newName)
RenameNewPath(oldRelativePath, newName) == join(dirname(oldRelativePath), newName)

RenameCall(c) ==
  /\ cl[c].pc = "rename_call"
  /\ LET r == FsRename(fs, cl[c].abs, cl[c].dest)
     IN /\ fs' = r.fs
        /\ IF r.err.code # ""
           THEN Finish(c, [cl[c] EXCEPT !.missing = PathMissing(r.err)], RawFailure(r.err))
           ELSE Finish(c, cl[c],
                       Success(<<Item(cl[c].name, TRUE,
                                      RenameNewPath(cl[c].relativePath, cl[c].name),
                                      "", 0, FALSE, <<>>, <<>>)>>))
  /\ UNCHANGED <<clock, rpVars, mpVars, nvVars, rlVars, ucVars, ssVars>>

(*------------------------------ deleteFile ------------------------------*)
StartDelete(c, filePath) ==
  /\ cl[c].pc = "idle"
  /\ LET rec == Request("delete", filePath, <<>>, <<>>)
         r == resolvePath(filePath)
     IN IF filePath = <<>> THEN Finish(c, rec, Failure(400, MissingPath))
        ELSE IF r.err # "" THEN Finish(c, rec, Failure(500, r.err))
        ELSE Go(c, [rec EXCEPT !.abs = r.path, !.pc = "delete_access"])
  /\ UNCHANGED <<fs, clock, rpVars, mpVars, nvVars, rlVars, ucVars, ssVars>>

DeleteAccess(c) ==
  /\ cl[c].pc = "delete_access"
  /\ LET r == FsAccess(fs, cl[c].abs)
     IN IF r.err.code # ""
        THEN Finish(c, [cl[c] EXCEPT !.missing = PathMissing(r.err)],
                    Failure(500, EntryNotFound))
        ELSE Go(c, [cl[c] EXCEPT !.pc = "delete_stat"])
  /\ UNCHANGED <<fs, clock, rpVars, mpVars, nvVars, rlVars, ucVars, ssVars>>

DeleteStat(c) ==
  /\ cl[c].pc = "delete_stat"
  /\ LET r == FsStat(fs, cl[c].abs)
     IN IF r.err.code # ""
        THEN Finish(c, [cl[c] EXCEPT !.missing = PathMissing(r.err)], RawFailure(r.err))
        ELSE Go(c, [cl[c] EXCEPT !.stats = r.value, !.pc = "delete_remove"])
  /\ UNCHANGED <<fs, clock, rpVars, mpVars, nvVars, rlVars, ucVars, ssVars>>

\* fs.rm of a directory, fs.unlink of anything else
RemoveCall(f, abs, stats) ==
  IF stats.type = "directory" THEN FsRm(f, abs) ELSE FsUnlink(f, abs)

DeleteRemove(c) ==
  /\ cl[c].pc = "delete_remove"
  /\ LET r == RemoveCall(fs, cl[c].abs, cl[c].stats)
         rec == [cl[c] EXCEPT !.missing = cl[c].abs \notin DOMAIN fs]
     IN /\ fs' = r.fs
        /\ IF r.err.code # "" THEN Finish(c, rec, RawFailure(r.err))
           ELSE Finish(c, rec,
                       Success(<<Item(<<>>, TRUE, cl[c].relativePath, cl[c].stats.type,
                                      0, FALSE, <<>>, <<>>)>>))
  /\ UNCHANGED <<clock, rpVars, mpVars, nvVars, rlVars, ucVars, ssVars>>

(*----------------------------- downloadFile -----------------------------*)
StartDownload(c, filePath) ==
  /\ cl[c].pc = "idle"
  /\ LET rec == Request("download", filePath, <<>>, <<>>)
         r == resolvePath(filePath)
     IN IF filePath = <<>> THEN Finish(c, rec, Failure(400, MissingPath))
        ELSE IF r.err # "" THEN Finish(c, rec, Failure(500, r.err))
        ELSE Go(c, [rec EXCEPT !.abs = r.path, !.pc = "download_stat"])
  /\ UNCHANGED <<fs, clock, rpVars, mpVars, nvVars, rlVars, ucVars, ssVars>>

DownloadStat(c) ==
  /\ cl[c].pc = "download_stat"
  /\ LET r == FsStat(fs, cl[c].abs)
     IN IF r.err.code # "" \/ r.value.type # "file"
        THEN Finish(c, [cl[c] EXCEPT !.missing = PathMissing(r.err)],
                    Failure(500, DownloadNotFound))
        ELSE Go(c, [cl[c] EXCEPT !.stats = r.value, !.pc = "download_read"])
  /\ UNCHANGED <<fs, clock, rpVars, mpVars, nvVars, rlVars, ucVars, ssVars>>

DownloadRead(c) ==
  /\ cl[c].pc = "download_read"
  /\ LET r == FsReadFile(fs, cl[c].abs)
     IN IF r.err.code # ""
        THEN Finish(c, [cl[c] EXCEPT !.missing = PathMissing(r.err)], RawFailure(r.err))
        ELSE Finish(c, cl[c],
                    Success(<<Item(basename(cl[c].abs), FALSE, <<>>, "file", Len(r.value),
                                   FALSE, <<>>, r.value)>>))
  /\ UNCHANGED <<fs, clock, rpVars, mpVars, nvVars, rlVars, ucVars, ssVars>>

(*------------------------------ uploadFile ------------------------------*)
\* uploadFile for the file at rec.idx, up to await fs.stat(targetDir)
UploadEnter(c, rec) ==
  LET file == rec.files[rec.idx]
      r == resolvePath(rec.relativePath)
  IN IF ~isValidFileName(file.filename) THEN Finish(c, rec, Failure(500, UploadInvalidName))
     ELSE IF r.err # "" THEN Finish(c, rec, Failure(500, r.err))
     ELSE Go(c, [rec EXCEPT !.abs = r.path, !.pc = "upload_stat"])

\* The controller after parseMultipart: the loop over parsed.files starts
StartUpload(c, files, targetPath) ==
  /\ cl[c].pc = "idle"
  /\ UploadEnter(c, [Request("upload", targetPath, <<>>, files) EXCEPT !.idx = 1])
  /\ UNCHANGED <<fs, clock, rpVars, mpVars, nvVars, rlVars, ucVars, ssVars>>

UploadStat(c) ==
  /\ cl[c].pc = "upload_stat"
  /\ LET r == FsStat(fs, cl[c].abs)
     IN IF r.err.code # "" \/ r.value.type # "directory"
        THEN Finish(c, [cl[c] EXCEPT !.missing = PathMissing(r.err)],
                    Failure(500, TargetNotFound))
        ELSE Go(c, [cl[c] EXCEPT !.pc = "upload_check"])
  /\ UNCHANGED <<fs, clock, rpVars, mpVars, nvVars, rlVars, ucVars, ssVars>>

\* `${nameWithoutExt}_${timestamp}${ext}`
StampedName(filename, timestamp) ==
  LET ext == extname(filename)
      nameWithoutExt == basenameExt(filename, ext)
  IN nameWithoutExt \o <<"_">> \o ToDigits(timestamp) \o ext

\* The name the upload is stored under: the filename, or the stamped name
\* when fs.existsSync finds the filename taken
StoredName(f, targetDir, filename, timestamp) ==
  IF existsSync(f, join(targetDir, filename)) THEN StampedName(filename, timestamp)
  ELSE filename

\* fs.existsSync(filePath), Date.now() and the call of fs.writeFile
UploadCheck(c) ==
  /\ cl[c].pc = "upload_check"
  /\ LET stored == StoredName(fs, cl[c].abs, cl[c].files[cl[c].idx].filename, clock)
     IN Go(c, [cl[c] EXCEPT !.name = stored, !.dest = join(cl[c].abs, stored),
                            !.pc = "upload_write"])
  /\ UNCHANGED <<fs, clock, rpVars, mpVars, nvVars, rlVars, ucVars, ssVars>>

\* fs.writeFile completes; the loop of the controller goes to the next file
UploadWrite(c) ==
  /\ cl[c].pc = "upload_write"
  /\ LET file == cl[c].files[cl[c].idx]
         r == FsWriteFile(fs, cl[c].dest, file.content)
         result == Item(cl[c].name, TRUE, join(cl[c].relativePath, cl[c].name), "file",
                        Len(file.content), FALSE, <<>>, <<>>)
         rec == [cl[c] EXCEPT !.results = Append(@, result)]
     IN /\ fs' = r.fs
        /\ IF r.err.code # ""
           THEN Finish(c, [cl[c] EXCEPT !.missing = PathMissing(r.err)], RawFailure(r.err))
           ELSE IF cl[c].idx = Len(cl[c].files) THEN Finish(c, rec, Success(rec.results))
           ELSE UploadEnter(c, [rec EXCEPT !.idx = @ + 1])
  /\ UNCHANGED <<clock, rpVars, mpVars, nvVars, rlVars, ucVars, ssVars>>

(*----------------------------- createFolder -----------------------------*)
\* resolvePath, isValidFileName, fs.existsSync and the call of fs.mkdir
StartCreateFolder(c, relativePath, folderName) ==
  /\ cl[c].pc = "idle"
  /\ LET rec == Request("createFolder", relativePath, folderName, <<>>)
         r == resolvePath(relativePath)
         newFolderPath == join(r.path, folderName)
     IN IF r.err # "" THEN Finish(c, rec, Failure(0, r.err))
        ELSE IF ~isValidFileName(folderName)
        THEN Finish(c, [rec EXCEPT !.abs = r.path], Failure(0, InvalidFolderName))
        ELSE IF existsSync(fs, newFolderPath)
        THEN Finish(c, [rec EXCEPT !.abs = r.path, !.dest = newFolderPath],
                    Failure(0, FolderConflict))
        ELSE Go(c, [rec EXCEPT !.abs = r.path, !.dest = newFolderPath, !.pc = "mkdir_call"])
  /\ UNCHANGED <<fs, clock, rpVars, mpVars, nvVars, rlVars, ucVars, ssVars>>

MkdirCall(c) ==
  /\ cl[c].pc = "mkdir_call"
  /\ LET r == FsMkdir(fs, cl[c].dest)
     IN /\ fs' = r.fs
        /\ IF r.err.code # ""
           THEN Finish(c, [cl[c] EXCEPT !.missing = PathMissing(r.err)], RawFailure(r.err))
           ELSE Finish(c, cl[c],
                       Success(<<Item(cl[c].name, TRUE, join(cl[c].relativePath, cl[c].name),
                                      "directory", 0, FALSE, <<>>, <<>>)>>))
  /\ UNCHANGED <<clock, rpVars, mpVars, nvVars, rlVars, ucVars, ssVars>>

SvNext ==
  \/ Tick
  \/ \E c \in Clients :
       \/ \E p \in ListPaths : StartList(c, p)
       \/ ListAccess(c) \/ ListStat(c) \/ ListReaddir(c) \/ ListChild(c)
       \/ \E q \in RenameRequests : StartRename(c, q[1], q[2])
       \/ RenameAccess(c) \/ RenameCheck(c) \/ RenameCall(c)
       \/ \E p \in DeletePaths : StartDelete(c, p)
       \/ DeleteAccess(c) \/ DeleteStat(c) \/ DeleteRemove(c)
       \/ \E p \in DownloadPaths : StartDownload(c, p)
       \/ DownloadStat(c) \/ DownloadRead(c)
       \/ \E fl \in UploadFiles, p \in UploadTargets : StartUpload(c, fl, p)
       \/ UploadStat(c) \/ UploadCheck(c) \/ UploadWrite(c)
       \/ \E p \in FolderParents, n \in FolderNames : StartCreateFolder(c, p, n)
       \/ MkdirCall(c)

SpecService == Init /\ [][SvNext]_vars

(***************************************************************************)
(* resolvePath on every input made of a few tokens                         *)
(***************************************************************************)
MaxTokens == 5

PathTokens ==
  { <<".", ".", "/">>, <<".", ".", "\\">>, <<"/">>, <<"\\">>, <<".">>, <<"f">>, <<"a">> }


AppendToken ==
  /\ rpResult = <<>>
  /\ rpTokens < MaxTokens
  /\ \E t \in PathTokens : rpInput' = rpInput \o t
  /\ rpTokens' = rpTokens + 1
  /\ UNCHANGED <<rpResult, svVars, mpVars, nvVars, rlVars, ucVars, ssVars>>

Resolve ==
  /\ rpResult = <<>>
  /\ rpResult' = <<resolvePath(rpInput)>>
  /\ UNCHANGED <<rpInput, rpTokens, svVars, mpVars, nvVars, rlVars, ucVars, ssVars>>

SpecResolve == Init /\ [][AppendToken \/ Resolve]_vars

(***************************************************************************)
(* parseMultipart and parseHeaders of helpers.js.  Buffers and strings are *)
(* sequences of one-character strings; the bodies used are ASCII, so that  *)
(* Buffer.toString('utf8') leaves the characters as they are.              *)
(***************************************************************************)
CRLF == <<"\r", "\n">>

\* The characters String.prototype.trim removes that a TLA+ string can hold
WhiteSpace == { " ", "\t", "\n", "\f", "\r" }

RECURSIVE trimStart(_)
trimStart(s) ==
  IF s # <<>> /\ s[1] \in WhiteSpace THEN trimStart(Tail(s)) ELSE s

RECURSIVE trimEnd(_)
trimEnd(s) ==
  IF s # <<>> /\ s[Len(s)] \in WhiteSpace THEN trimEnd(SubSeq(s, 1, Len(s) - 1)) ELSE s

trim(s) == trimEnd(trimStart(s))

\* String.prototype.split with a separator of one or more characters
RECURSIVE split(_, _)
split(s, sep) ==
  LET i == IndexOf(s, sep, 0)
  IN IF i = -1 THEN <<s>>
     ELSE <<Slice(s, 0, i)>> \o split(SubSeqFrom(s, i + Len(sep) + 1), sep)

\* An object with string keys: obj[key] = value, the other keys kept
SetKey(obj, key, value) ==
  [k \in DOMAIN obj \cup {key} |-> IF k = key THEN value ELSE obj[k]]

EmptyObject == [k \in {} |-> <<>>]

\* obj[key] where only its truthiness and its characters are used: the
\* undefined of a missing key and the empty string are both <<>>
GetKey(obj, key) == IF key \in DOMAIN obj THEN obj[key] ELSE <<>>

\* The loop of parseHeaders over the lines from the i-th on
RECURSIVE parseHeaderLines(_, _, _)
parseHeaderLines(lines, i, headers) ==
  IF i > Len(lines) THEN headers
  ELSE LET line == lines[i]
           colonIndex == IndexOf(line, <<":">>, 0)
       IN IF colonIndex = -1 THEN parseHeaderLines(lines, i + 1, headers)
          ELSE LET key == toLowerCase(trim(Slice(line, 0, colonIndex)))
                   value == trim(Slice(line, colonIndex + 1, Len(line)))
               IN parseHeaderLines(lines, i + 1, SetKey(headers, key, value))

parseHeaders(headersText) == parseHeaderLines(split(headersText, CRLF), 1, EmptyObject)

\* str.match(/<param>="([^"]+)"/): <<>> for null, else <<g>> with g the group
\* of the leftmost match
MatchQuoted(str, param) ==
  LET open == param \o <<"=", "\"">>
      close(i) == IndexOf(str, <<"\"">>, i + Len(open))
      starts == { i \in 0..(Len(str) - Len(open)) :
                    /\ Slice(str, i, i + Len(open)) = open
                    /\ close(i) > i + Len(open) }
  IN IF starts = {} THEN <<>>
     ELSE LET i == Min(starts) IN <<Slice(str, i + Len(open), close(i))>>

H_content_disposition == <<"c", "o", "n", "t", "e", "n", "t", "-", "d", "i", "s", "p", "o", "s", "i", "t", "i", "o", "n">>
H_content_type == <<"c", "o", "n", "t", "e", "n", "t", "-", "t", "y", "p", "e">>
OctetStream == <<"a", "p", "p", "l", "i", "c", "a", "t", "i", "o", "n", "/", "o", "c", "t", "e", "t", "-", "s", "t", "r", "e", "a", "m">>
ParamName == <<"n", "a", "m", "e">>
ParamFilename == <<"f", "i", "l", "e", "n", "a", "m", "e">>

\* A slice of the part's content that keeps the CRLF in front of the delimiter
contentWithLineEnd(partBuffer, headerEndIndex) ==
  Slice(partBuffer, headerEndIndex + 4, Len(partBuffer))

\* partBuffer.slice(headerEndIndex + 4, -2)
contentBuffer(partBuffer, headerEndIndex) ==
  Slice(partBuffer, headerEndIndex + 4, Len(partBuffer) - 2)

UploadedPart(fieldName, filename, contentType, content) ==
  [fieldName |-> fieldName, filename |-> filename, contentType |-> contentType,
   content |-> content, size |-> Len(content)]

\* What one turn of the while loop leaves: whether the loop is left (break),
\* the position and the result
Turn(done, position, result) == [done |-> done, position |-> position, result |-> result]

\* A continue that scans the buffer again from its start
backToStart(partStart, nextBoundaryIndex) == 0

\* A continue that goes on behind the start of the next delimiter
pastNextBoundary(partStart, nextBoundaryIndex) == nextBoundaryIndex + 1

\* The position a `continue` goes on from: the one set after the line end
\* that follows the delimiter
continueFrom(partStart, nextBoundaryIndex) == partStart

\* One turn of the while loop of parseMultipart, entered with position < buffer.length
iterate(buffer, boundaryBuffer, position, result) ==
  LET boundaryIndex == IndexOf(buffer, boundaryBuffer, position)
      afterBoundary == boundaryIndex + Len(boundaryBuffer)
      newlineIndex == IndexOf(buffer, CRLF, afterBoundary)
      partStart == newlineIndex + 2
      nextBoundaryIndex == IndexOf(buffer, boundaryBuffer, partStart)
      partBuffer == Slice(buffer, partStart, nextBoundaryIndex)
      headerEndIndex == IndexOf(partBuffer, CRLF \o CRLF, 0)
      headers == parseHeaders(Slice(partBuffer, 0, headerEndIndex))
      content == contentBuffer(partBuffer, headerEndIndex)
      disposition == GetKey(headers, H_content_disposition)
      nameMatch == MatchQuoted(disposition, ParamName)
      filenameMatch == MatchQuoted(disposition, ParamFilename)
      declaredType == GetKey(headers, H_content_type)
      contentType == IF declaredType # <<>> THEN declaredType ELSE OctetStream
      skip == Turn(FALSE, continueFrom(partStart, nextBoundaryIndex), result)
  IN IF boundaryIndex = -1 THEN Turn(TRUE, position, result)
     ELSE IF newlineIndex = -1 THEN Turn(TRUE, afterBoundary, result)
     ELSE IF nextBoundaryIndex = -1 THEN Turn(TRUE, partStart, result)
     ELSE IF headerEndIndex = -1 THEN skip
     ELSE IF disposition = <<>> THEN skip
     ELSE IF nameMatch = <<>> THEN skip
     ELSE IF filenameMatch # <<>>
     THEN Turn(FALSE, nextBoundaryIndex,
               [result EXCEPT !.files =
                  Append(@, UploadedPart(nameMatch[1], filenameMatch[1],
                                         contentType, content))])
     ELSE Turn(FALSE, nextBoundaryIndex,
               [result EXCEPT !.fields = SetKey(@, nameMatch[1], content)])

\* The while loop of parseMultipart from position on
RECURSIVE parseFrom(_, _, _, _)
parseFrom(buffer, boundaryBuffer, position, result) ==
  IF ~(position < Len(buffer)) THEN result
  ELSE LET turn == iterate(buffer, boundaryBuffer, position, result)
       IN IF turn.done THEN turn.result
          ELSE parseFrom(buffer, boundaryBuffer, turn.position, turn.result)

parseMultipart(buffer, boundary) ==
  parseFrom(buffer, <<"-", "-">> \o boundary, 0, [fields |-> EmptyObject, files |-> <<>>])

(***************************************************************************)
(* The requests parseMultipart is called on: a form of up to MaxParts      *)
(* parts, encoded as multipart/form-data with the boundary Boundary.       *)
(***************************************************************************)
MaxParts == 3

Boundary == <<"X", "Y">>

\* A part of the form: the parameters of its Content-Disposition in their
\* order, its Content-Type (<<>> when it declares none) and its body
Part(params, ctype, body) ==
  [params |-> params, ctype |-> ctype, body |-> body, form |-> "whole"]

\* A part the client encodes wrongly: without the empty line between its
\* headers and its body, or without a Content-Disposition header
Malformed(form, params, ctype, body) ==
  [params |-> params, ctype |-> ctype, body |-> body, form |-> form]

Param(key, value) == [key |-> key, value |-> value]

PartShapes ==
  { Part(<<Param(ParamName, <<"p">>)>>, <<>>, <<"d">>),
    Part(<<Param(ParamName, <<"p">>)>>, <<>>, <<"e">>),
    Part(<<Param(ParamName, <<"q">>)>>, <<>>, <<>>),
    Part(<<Param(ParamName, <<"f">>), Param(ParamFilename, <<"a">>)>>,
         <<"t", "/", "x">>, <<"h">> \o CRLF \o CRLF \o <<"i">>),
    Part(<<Param(ParamName, <<"f">>), Param(ParamFilename, <<"b">>)>>,
         <<>>, <<"-", "-">>),
    Part(<<Param(ParamFilename, <<"a">>), Param(ParamName, <<"f">>)>>, <<>>, <<"k">>),
    Part(<<Param(ParamFilename, <<"a">>)>>, <<>>, <<"m">>),
    Part(<<>>, <<>>, <<"n">>),
    Malformed("noSeparator", <<Param(ParamName, <<"p">>)>>, <<>>, <<"z">>),
    Malformed("noDisposition", <<>>, <<"t", "/", "x">>, <<"w">>) }

RECURSIVE ParamsText(_)
ParamsText(params) ==
  IF params = <<>> THEN <<>>
  ELSE <<";", " ">> \o params[1].key \o <<"=", "\"">> \o params[1].value \o <<"\"">>
         \o ParamsText(Tail(params))

\* The Content-Type header line of a part
ContentTypeLine(part) ==
  <<"C", "o", "n", "t", "e", "n", "t", "-", "T", "y", "p", "e", ":", " ">> \o part.ctype

\* The header lines of a part
HeadersText(part) ==
  IF part.form = "noDisposition" THEN ContentTypeLine(part)
  ELSE
  <<"C", "o", "n", "t", "e", "n", "t", "-", "D", "i", "s", "p", "o", "s", "i", "t", "i", "o", "n", ":", " ", "f", "o", "r", "m", "-", "d", "a", "t", "a">> \o ParamsText(part.params)
    \o (IF part.ctype = <<>> THEN <<>> ELSE CRLF \o ContentTypeLine(part))

\* What stands between the headers of a part and its body
Separator(part) == IF part.form = "noSeparator" THEN CRLF ELSE CRLF \o CRLF

\* The delimiter line, the headers, the empty line and the body of every part
RECURSIVE EncodeParts(_)
EncodeParts(parts) ==
  IF parts = <<>> THEN <<>>
  ELSE <<"-", "-">> \o Boundary \o CRLF \o HeadersText(parts[1]) \o Separator(parts[1])
         \o parts[1].body \o CRLF \o EncodeParts(Tail(parts))

\* The body of the request: the parts and the closing delimiter
Encode(parts) == EncodeParts(parts) \o <<"-", "-">> \o Boundary \o <<"-", "-">> \o CRLF

\* The client adds a part to the form
AddPart ==
  /\ mpBuffer = <<>>
  /\ Len(mpParts) < MaxParts
  /\ \E part \in PartShapes : mpParts' = Append(mpParts, part)
  /\ UNCHANGED <<mpBuffer, mpResult, rpVars, svVars, nvVars, rlVars, ucVars, ssVars>>

\* The client sends the form
Send ==
  /\ mpBuffer = <<>>
  /\ mpBuffer' = Encode(mpParts)
  /\ UNCHANGED <<mpParts, mpResult, rpVars, svVars, nvVars, rlVars, ucVars, ssVars>>

\* The upload controller calls parseMultipart on the body
Decode ==
  /\ mpBuffer # <<>>
  /\ mpResult = <<>>
  /\ mpResult' = <<parseMultipart(mpBuffer, Boundary)>>
  /\ UNCHANGED <<mpParts, mpBuffer, rpVars, svVars, nvVars, rlVars, ucVars, ssVars>>

SpecMP == Init /\ [][AddPart \/ Send \/ Decode]_vars

(***************************************************************************)
(* The names isValidFileName is called on: up to MaxNameTokens tokens, two *)
(* of them long enough to reach the length limit from both sides.          *)
(***************************************************************************)
MaxNameTokens == 3

Repeat(c, n) == [i \in 1..n |-> c]

NameTokens ==
  { <<"c", "o", "n">>, <<"C", "o", "M">>, <<"L", "p", "t">>, <<"1">>, <<"0">>, <<".">>,
    <<".", "t">>, <<"<">>, <<"\t">>, <<"/">>,
    Repeat("x", MaxNameLength \div 2), Repeat("x", MaxNameLength - MaxNameLength \div 2) }

NameAppend ==
  /\ nvResult = <<>>
  /\ nvTokens < MaxNameTokens
  /\ \E t \in NameTokens : nvInput' = nvInput \o t
  /\ nvTokens' = nvTokens + 1
  /\ UNCHANGED <<nvResult, rpVars, svVars, mpVars, rlVars, ucVars, ssVars>>

Validate ==
  /\ nvResult = <<>>
  /\ nvResult' = <<isValidFileName(nvInput)>>
  /\ UNCHANGED <<nvInput, nvTokens, rpVars, svVars, mpVars, rlVars, ucVars, ssVars>>

SpecName == Init /\ [][NameAppend \/ Validate]_vars

(***************************************************************************)
(* The loop of parseMultipart turn by turn, on buffers made of up to       *)
(* MaxScanTokens tokens: delimiters, line ends, dashes, the head of a part *)
(* and filler.                                                             *)
(***************************************************************************)
MaxScanTokens == 5

\* A delimiter, a delimiter line, a line end, filler, and the headers, the
\* empty line and the empty body of a part
ScanTokens ==
  { <<"-", "-">> \o Boundary,
    <<"-", "-">> \o Boundary \o CRLF,
    CRLF,
    <<"x">>,
    HeadersText(Part(<<Param(ParamName, <<"p">>)>>, <<>>, <<>>)) \o CRLF \o CRLF \o CRLF }

ScanAppend ==
  /\ ssScan = <<>>
  /\ ssTokens < MaxScanTokens
  /\ \E t \in ScanTokens : ssBuffer' = ssBuffer \o t
  /\ ssTokens' = ssTokens + 1
  /\ UNCHANGED <<ssScan, rpVars, svVars, mpVars, nvVars, rlVars, ucVars>>

\* parseMultipart is called: result and position are set up
ScanStart ==
  /\ ssScan = <<>>
  /\ ssScan' = <<Turn(FALSE, 0, [fields |-> EmptyObject, files |-> <<>>])>>
  /\ UNCHANGED <<ssBuffer, ssTokens, rpVars, svVars, mpVars, nvVars, rlVars, ucVars>>

\* The loop condition is tested and, where it holds, the loop makes a turn
ScanTurn ==
  /\ ssScan # <<>>
  /\ ~ssScan[1].done
  /\ ssScan' =
       <<IF ~(ssScan[1].position < Len(ssBuffer))
         THEN Turn(TRUE, ssScan[1].position, ssScan[1].result)
         ELSE iterate(ssBuffer, <<"-", "-">> \o Boundary, ssScan[1].position,
                      ssScan[1].result)>>
  /\ UNCHANGED <<ssBuffer, ssTokens, rpVars, svVars, mpVars, nvVars, rlVars, ucVars>>

SpecScan == Init /\ [][ScanAppend \/ ScanStart \/ ScanTurn]_vars

(***************************************************************************)
(* The router of fileController.js: the rate limiter, its cleanup timer    *)
(* and handle.  Two client addresses send requests; the first may send     *)
(* MaxOver requests more than a window admits, the second up to MaxQuiet   *)
(* requests a window.  The clock advances by a millisecond or by a window, *)
(* MaxTicks times.                                                         *)
(***************************************************************************)
RATE_LIMIT_WINDOW == 60000
MAX_REQUESTS == 100

MaxOver == 2
MaxQuiet == 1
MaxTicks == 2

Addresses == { "a", "b" }
Busy == "a"

\* Map.prototype.set and Map.prototype.delete, the Map held as a function
MapSet(m, k, v) == [x \in DOMAIN m \cup {k} |-> IF x = k THEN v ELSE m[x]]
MapDelete(m, ks) == [x \in DOMAIN m \ ks |-> m[x]]

Record(count, resetTime) == [count |-> count, resetTime |-> resetTime]

Decision(allowed, map) == [allowed |-> allowed, map |-> map]

\* A limiter that lets every request pass and starts a new record each time
admitEveryRequest(map, ip, now) ==
  Decision(TRUE, MapSet(map, ip, Record(1, now + RATE_LIMIT_WINDOW)))

\* checkRateLimit on the map and at the time given: whether the request
\* passes, and the map it leaves
checkRateLimit(map, ip, now) ==
  IF ip \notin DOMAIN map
  THEN Decision(TRUE, MapSet(map, ip, Record(1, now + RATE_LIMIT_WINDOW)))
  ELSE IF now > map[ip].resetTime
  THEN Decision(TRUE, MapSet(map, ip, Record(1, now + RATE_LIMIT_WINDOW)))
  ELSE LET count == map[ip].count + 1
       IN Decision(~(count > MAX_REQUESTS),
                   MapSet(map, ip, Record(count, map[ip].resetTime)))

\* A timer that fills every record up to the limit
useUpEveryRecord(map, now) == [ip \in DOMAIN map |-> Record(MAX_REQUESTS, map[ip].resetTime)]

\* The callback of the cleanup timer
cleanup(map, now) == MapDelete(map, { ip \in DOMAIN map : now > map[ip].resetTime })

\* The keys of the routes table, and the keys the clients ask for
routes ==
  { "GET /api/files", "POST /api/rename", "DELETE /api/delete", "GET /api/download",
    "POST /api/upload", "GET /api/health" }
RouteKeys == { "GET /api/files", "GET /api/folder" }

TooManyRequests == 429
RouteNotFound == 404

\* The window the requests of an address are counted in: it starts at the
\* first request counted and lasts RATE_LIMIT_WINDOW; seen and admitted are
\* the requests that arrived in it and those that were let pass
Window(start, seen, admitted) == [start |-> start, seen |-> seen, admitted |-> admitted]
InWindow(ip, now) ==
  ip \in DOMAIN rlWindow /\ ~(now > rlWindow[ip].start + RATE_LIMIT_WINDOW)
Counted(ip, now, allowed) ==
  LET one == IF allowed THEN 1 ELSE 0
  IN MapSet(rlWindow, ip,
            IF InWindow(ip, now)
            THEN Window(rlWindow[ip].start, rlWindow[ip].seen + 1,
                        rlWindow[ip].admitted + one)
            ELSE Window(now, 1, one))

MaySend(ip) == IF ip = Busy THEN MAX_REQUESTS + MaxOver ELSE MaxQuiet

\* handle: a request of ip for routeKey
Handle(ip, routeKey) ==
  /\ InWindow(ip, rlNow) => rlWindow[ip].seen < MaySend(ip)
  /\ LET limit == checkRateLimit(rlMap, ip, rlNow)
         never == checkRateLimit(rlShadow, ip, rlNow)
     IN /\ rlMap' = limit.map
        /\ rlShadow' = never.map
        /\ rlWindow' = Counted(ip, rlNow, limit.allowed)
        /\ rlLast' = Handled(ip, limit.allowed, never.allowed,
                             ip \in DOMAIN rlShadow /\ ip \notin DOMAIN rlMap,
                             IF ~limit.allowed THEN TooManyRequests
                             ELSE IF routeKey \in routes THEN 0 ELSE RouteNotFound,
                             IF limit.allowed /\ routeKey \in routes THEN routeKey ELSE "")
  /\ UNCHANGED <<rlNow, rlTicks, rpVars, svVars, mpVars, nvVars, ucVars, ssVars>>

\* The cleanup timer fires
Cleanup ==
  /\ rlMap' = cleanup(rlMap, rlNow)
  /\ UNCHANGED <<rlShadow, rlWindow, rlNow, rlTicks, rlLast, rpVars, svVars, mpVars, nvVars,
                 ucVars, ssVars>>

\* Time passes
RlTick ==
  /\ rlTicks < MaxTicks
  /\ \E d \in { 1, RATE_LIMIT_WINDOW } : rlNow' = rlNow + d
  /\ rlTicks' = rlTicks + 1
  /\ UNCHANGED <<rlMap, rlShadow, rlWindow, rlLast, rpVars, svVars, mpVars, nvVars, ucVars,
                 ssVars>>

RlNext ==
  \/ \E ip \in Addresses, routeKey \in RouteKeys : Handle(ip, routeKey)
  \/ Cleanup
  \/ RlTick

SpecLimiter == Init /\ [][RlNext]_vars

(***************************************************************************)
(* The upload controller of fileController.js on one request: the checks   *)
(* of the Content-Type, then the listeners of the request stream.  The     *)
(* body arrives in up to MaxChunks chunks; parseMultipart finds up to      *)
(* MaxUploadFiles files in it.                                             *)
(***************************************************************************)
MAX_SIZE == 104857600

MaxChunks == 3
MaxUploadFiles == 2

ChunkSizes == { 1, 1024, MAX_SIZE }

\* The Content-Type headers of the requests: none, one of another type, one
\* without boundary parameter, one with
ContentTypes ==
  { "", "text/plain", "multipart/form-data", "multipart/form-data; boundary=XY" }
IncludesMultipart(contentType) ==
  contentType \in { "multipart/form-data", "multipart/form-data; boundary=XY" }
HasBoundary(contentType) == contentType = "multipart/form-data; boundary=XY"

\* sendSuccess and sendError: writeHead and end.  On a response that has
\* been sent writeHead throws ERR_HTTP_HEADERS_SENT.
Write(u, statusCode) ==
  [u EXCEPT !.sent = Append(@, statusCode), !.threw = @ \/ u.sent # <<>>]

\* uploadFile up to the registration of the listeners
UcBegin(contentType) ==
  /\ uc.pc = "idle"
  /\ uc' = IF ~IncludesMultipart(contentType) \/ ~HasBoundary(contentType)
           THEN Write([uc EXCEPT !.pc = "closed", !.contentType = contentType], 400)
           ELSE [uc EXCEPT !.pc = "reading", !.contentType = contentType]
  /\ UNCHANGED <<rpVars, svVars, mpVars, nvVars, rlVars, ssVars>>

\* The listener of 'data'.  A paused stream emits neither 'data' nor 'end'.
UcData(length) ==
  /\ uc.pc = "reading"
  /\ ~uc.paused
  /\ Len(uc.chunks) < MaxChunks
  /\ LET totalSize == uc.totalSize + length
     IN uc' = IF totalSize > MAX_SIZE
              THEN Write([uc EXCEPT !.totalSize = totalSize, !.paused = TRUE], 413)
              ELSE [uc EXCEPT !.totalSize = totalSize, !.chunks = Append(@, length)]
  /\ UNCHANGED <<rpVars, svVars, mpVars, nvVars, rlVars, ssVars>>

\* The listener of 'end' up to the loop over the files parseMultipart found
UcEnd(files) ==
  /\ uc.pc = "reading"
  /\ ~uc.paused
  /\ uc' = IF files = 0
           THEN Write([uc EXCEPT !.pc = "closed", !.parsed = TRUE], 400)
           ELSE [uc EXCEPT !.pc = "uploading", !.parsed = TRUE, !.files = files]
  /\ UNCHANGED <<rpVars, svVars, mpVars, nvVars, rlVars, ssVars>>

\* One turn of the loop: fileService.uploadFile stores the file or throws
UcStore(stored) ==
  /\ uc.pc = "uploading"
  /\ uc.results < uc.files
  /\ uc' = IF stored THEN [uc EXCEPT !.results = @ + 1]
           ELSE Write([uc EXCEPT !.pc = "closed"], 500)
  /\ UNCHANGED <<rpVars, svVars, mpVars, nvVars, rlVars, ssVars>>

\* The loop is over: sendSuccess
UcSucceed ==
  /\ uc.pc = "uploading"
  /\ uc.results = uc.files
  /\ uc' = Write([uc EXCEPT !.pc = "closed"], 200)
  /\ UNCHANGED <<rpVars, svVars, mpVars, nvVars, rlVars, ssVars>>

\* The listener of 'error': the connection fails before the body has ended
UcError ==
  /\ uc.pc = "reading"
  /\ uc' = Write([uc EXCEPT !.pc = "closed"], 500)
  /\ UNCHANGED <<rpVars, svVars, mpVars, nvVars, rlVars, ssVars>>

UcNext ==
  \/ \E contentType \in ContentTypes : UcBegin(contentType)
  \/ \E length \in ChunkSizes : UcData(length)
  \/ \E files \in 0..MaxUploadFiles : UcEnd(files)
  \/ \E stored \in BOOLEAN : UcStore(stored)
  \/ UcSucceed
  \/ UcError

SpecUpload == Init /\ [][UcNext]_vars

(***************************************************************************)
(* C1: resolvePath either fails with the access-denied error or returns    *)
(* the root directory or a descendant of it, never a location outside.     *)
(***************************************************************************)
C1_ResolveConfined ==
  rpResult # <<>> =>
    \/ rpResult[1].err = AccessDenied
    \/ AtOrBelowRoot(rpResult[1].path)

(***************************************************************************)
(* C2: every location on which an operation performs a filesystem call -   *)
(* the resolved path and the destination of rename, upload and             *)
(* createFolder - lies at or below the root directory.                     *)
(***************************************************************************)
C2_CallsConfined ==
  \A c \in Clients :
    /\ cl[c].abs # <<>> => AtOrBelowRoot(cl[c].abs)
    /\ cl[c].dest # <<>> => AtOrBelowRoot(cl[c].dest)

(***************************************************************************)
(* C3: an upload of F into a directory that holds an entry F succeeds,     *)
(* stores the payload under <basename>_<epochMillis><extension>, a name    *)
(* other than F, reports that name, and leaves F as it was.                *)
(* The step looked at is the completion of fs.writeFile of a file for      *)
(* which fs.existsSync found the name taken.                               *)
(***************************************************************************)
\* The request c completes the fs.writeFile of its current file
UploadWriteStep(c) == cl[c].pc = "upload_write" /\ cl'[c] # cl[c]

UploadedFile(c) == cl[c].files[cl[c].idx]

\* fs.existsSync found the filename taken: the stored name is not the filename
Collided(c) == cl[c].name # UploadedFile(c).filename

\* name is <basename>_<digits><extension> of filename
IsStampOf(name, filename) ==
  \E t \in 1..MaxClock :
    name = basenameExt(filename, extname(filename)) \o <<"_">> \o ToDigits(t)
             \o extname(filename)

\* The write stored the payload at dest and the result of the file reports it
StoredAndReported(c) ==
  /\ cl[c].dest \in DOMAIN fs'
  /\ fs'[cl[c].dest] = Entry("file", UploadedFile(c).content)
  /\ Len(cl'[c].results) = Len(cl[c].results) + 1
  /\ cl'[c].results[Len(cl'[c].results)].name = basename(cl[c].dest)
  /\ dirname(cl[c].dest) = cl[c].abs
  /\ ~(cl'[c].pc = "done" /\ resp'[c].status = "error" /\ resp'[c].error # NoError)

\* Every entry other than dest is after the write what it was before
OthersUntouched(c) ==
  \A p \in DOMAIN fs \ {cl[c].dest} : p \in DOMAIN fs' /\ fs'[p] = fs[p]

C3_CollisionUploadSucceeds ==
  [][\A c \in Clients :
       (UploadWriteStep(c) /\ Collided(c)) =>
         /\ IsStampOf(cl[c].name, UploadedFile(c).filename)
         /\ cl[c].name # UploadedFile(c).filename
         /\ StoredAndReported(c)
         /\ OthersUntouched(c)]_vars

(***************************************************************************)
(* C4: upload never overwrites: the completion of an upload's              *)
(* fs.writeFile leaves every entry that existed before it in place with    *)
(* its content, so that every payload is stored in a file of its own.      *)
(***************************************************************************)
C4_UploadNeverOverwrites ==
  [][\A c \in Clients :
       UploadWriteStep(c) =>
         \A p \in DOMAIN fs : p \in DOMAIN fs' /\ fs'[p] = fs[p]]_vars

(***************************************************************************)
(* C5: a successful rename leaves the entry in the parent directory it was *)
(* in, with base name exactly newName.                                     *)
(***************************************************************************)
RenameSucceeded(c) ==
  cl[c].op = "rename" /\ cl[c].pc = "done" /\ resp[c].status = "success"

C5_RenameStaysInDirectory ==
  \A c \in Clients :
    RenameSucceeded(c) =>
      /\ dirname(cl[c].dest) = dirname(cl[c].abs)
      /\ basename(cl[c].dest) = cl[c].name

(***************************************************************************)
(* C6: every path value of a result is root-relative, has no ".." segment  *)
(* and resolves, through resolvePath, at or below the root.                *)
(***************************************************************************)
HasDotDotSegment(p) ==
  \E i \in 1..Len(SplitOn(p, "/")) : SplitOn(p, "/")[i] = DotDot

ReturnedPaths(r) ==
  { r.data[i].path : i \in { j \in 1..Len(r.data) : r.data[j].hasPath } }

C6_ReturnedPathsClean ==
  \A c \in Clients :
    resp[c].status = "success" =>
      \A p \in ReturnedPaths(resp[c]) :
        /\ ~HasDotDotSegment(p)
        /\ resolvePath(p).err = ""
        /\ AtOrBelowRoot(resolvePath(p).path)

(***************************************************************************)
(* C7: nothing delivered to a caller, neither a result nor the message of  *)
(* a failure, contains an absolute filesystem path.                        *)
(***************************************************************************)
DeliveredStrings(r) ==
  { r.error.path, r.error.dest }
    \cup { r.data[i].path : i \in 1..Len(r.data) }
    \cup { r.data[i].name : i \in 1..Len(r.data) }

\* The operations a controller of fileController.js answers for
ControllerOps == { "list", "rename", "delete", "download", "upload" }

C7_NoAbsolutePathDelivered ==
  \A c \in Clients :
    cl[c].op \in ControllerOps =>
      \A str \in DeliveredStrings(resp[c]) : ~StartsWith(str, ROOT_DIR)

(***************************************************************************)
(* C8: of two operations run on the same entry, one of them a delete, the  *)
(* one that finds the path missing fails with the NotFound error of the    *)
(* service, and the filesystem they leave is the one some serial order of  *)
(* the two leaves.                                                         *)
(***************************************************************************)
RacingOps == { "list", "rename", "delete", "download" }

\* The two requests are operations of the claim on one entry
SameEntryRace ==
  /\ cl[1].op \in RacingOps /\ cl[2].op \in RacingOps
  /\ cl[1].op = "delete" \/ cl[2].op = "delete"
  /\ cl[1].relativePath = cl[2].relativePath

\* The filesystem after the whole operation of request rec has run alone on f
SerialEffect(rec, f) ==
  LET abs == resolvePath(rec.relativePath).path
      dest == RenameTarget(abs, rec.name)
  IN IF abs \notin DOMAIN f THEN f
     ELSE IF rec.op = "delete" THEN RemoveCall(f, abs, f[abs]).fs
     ELSE IF rec.op = "rename" /\ isValidFileName(rec.name) /\ ~existsSync(f, dest)
     THEN FsRename(f, abs, dest).fs
     ELSE f

C8_MissingIsNotFound ==
  \A c \in Clients :
    (cl[c].pc = "done" /\ cl[c].missing) =>
      resp[c].status = "error" /\ resp[c].message \in NotFoundMessages

C8_SerialOutcome ==
  (\A c \in Clients : cl[c].pc = "done") =>
    fs \in { SerialEffect(cl[2], SerialEffect(cl[1], InitialFs)),
             SerialEffect(cl[1], SerialEffect(cl[2], InitialFs)) }

C8_RaceSurfacesAsNotFound ==
  SameEntryRace => C8_MissingIsNotFound /\ C8_SerialOutcome

(***************************************************************************)
(* What the client put into the parts of the form.                         *)
(***************************************************************************)
\* The values of the parameters of the part whose key is key, in their order
ParamValues(part, key) ==
  LET idx == { i \in 1..Len(part.params) : part.params[i].key = key }
  IN IF idx = {} THEN <<>> ELSE <<part.params[Min(idx)].value>>

HasName(part) == ParamValues(part, ParamName) # <<>>
HasFilename(part) == ParamValues(part, ParamFilename) # <<>>
NameOf(part) == ParamValues(part, ParamName)[1]
FilenameOf(part) == ParamValues(part, ParamFilename)[1]

WellFormed(part) == part.form = "whole"
IsFilePart(part) == WellFormed(part) /\ HasName(part) /\ HasFilename(part)
IsFieldPart(part) == WellFormed(part) /\ HasName(part) /\ ~HasFilename(part)

FileParts == SelectSeq(mpParts, IsFilePart)
FieldParts == SelectSeq(mpParts, IsFieldPart)

\* Every part of the form has a name parameter
AllNamed == \A i \in 1..Len(mpParts) : HasName(mpParts[i])

\* The files element is the file part: filename, declared or default content
\* type, payload and size
FileMatches(file, part) ==
  /\ file.filename = FilenameOf(part)
  /\ file.contentType = (IF part.ctype = <<>> THEN OctetStream ELSE part.ctype)
  /\ file.content = part.body
  /\ file.size = Len(part.body)

FilesInOrder(result) ==
  /\ Len(result.files) = Len(FileParts)
  /\ \A k \in 1..Len(FileParts) : FileMatches(result.files[k], FileParts[k])

(***************************************************************************)
(* C9: for a well-formed multipart buffer whose parts have a name,         *)
(* parseMultipart returns one fields entry per part without filename, the  *)
(* body as text under its name, and one files element per part with a      *)
(* filename, in the order of the parts, with the declared or the default   *)
(* content type, the body as payload and its length as size.               *)
(***************************************************************************)
C9_DecodeEveryPart ==
  (mpResult # <<>> /\ AllNamed) =>
    /\ Cardinality(DOMAIN mpResult[1].fields) = Len(FieldParts)
    /\ \A i \in 1..Len(FieldParts) :
         /\ NameOf(FieldParts[i]) \in DOMAIN mpResult[1].fields
         /\ mpResult[1].fields[NameOf(FieldParts[i])] = FieldParts[i].body
    /\ FilesInOrder(mpResult[1])

\* C9 with fields as the map it is: one entry per name of a part without
\* filename, holding the body of the last part of that name; the files are
\* as above.
C9_DecodeLastFieldWins ==
  (mpResult # <<>> /\ AllNamed) =>
    /\ DOMAIN mpResult[1].fields = { NameOf(FieldParts[i]) : i \in 1..Len(FieldParts) }
    /\ \A i \in 1..Len(FieldParts) :
         (\A j \in (i + 1)..Len(FieldParts) : NameOf(FieldParts[j]) # NameOf(FieldParts[i]))
           => mpResult[1].fields[NameOf(FieldParts[i])] = FieldParts[i].body
    /\ FilesInOrder(mpResult[1])

\* A form of two fields of one name with different bodies and a file with a
\* declared content type has been decoded.
C9_Witness ==
  /\ mpResult # <<>> /\ AllNamed
  /\ Len(FieldParts) = 2
  /\ NameOf(FieldParts[1]) = NameOf(FieldParts[2])
  /\ FieldParts[1].body # FieldParts[2].body
  /\ Len(FileParts) = 1 /\ FileParts[1].ctype # <<>>
  /\ Len(mpResult[1].files) = 1

(***************************************************************************)
(* C10: the fieldName of a decoded part is the value of the name parameter *)
(* of its Content-Disposition, and a part without name parameter is in     *)
(* neither fields nor files, whether or not it has a filename parameter.   *)
(***************************************************************************)
C10_FieldNameIsNameParameter ==
  mpResult # <<>> =>
    /\ [k \in 1..Len(mpResult[1].files) |-> mpResult[1].files[k].fieldName]
         = [k \in 1..Len(FileParts) |-> NameOf(FileParts[k])]
    /\ DOMAIN mpResult[1].fields = { NameOf(FieldParts[i]) : i \in 1..Len(FieldParts) }

(***************************************************************************)
(* Names as the rules of the validator speak of them.                      *)
(***************************************************************************)
ControlChars == { "\t", "\n", "\f", "\r" }
ForbiddenPunctuation == { "<", ">", ":", "\"", "|", "?", "*" }

HasForbiddenChar(name) ==
  \E i \in 1..Len(name) : name[i] \in ControlChars \cup ForbiddenPunctuation

OnlyDots(name) == name # <<>> /\ \A i \in 1..Len(name) : name[i] = "."

\* The name without its extension: without what begins at its last dot,
\* when that dot is not its first character
WithoutExtension(name) ==
  LET dots == { i \in 2..Len(name) : name[i] = "." }
  IN IF dots = {} THEN name
     ELSE SubSeq(name, 1, (CHOOSE i \in dots : \A j \in dots : j <= i) - 1)

DeviceNames ==
  { <<"c", "o", "n">>, <<"p", "r", "n">>, <<"a", "u", "x">>, <<"n", "u", "l">> }
    \cup { <<"c", "o", "m", d>> : d \in { "1", "2", "3", "4", "5", "6", "7", "8", "9" } }
    \cup { <<"l", "p", "t", d>> : d \in { "1", "2", "3", "4", "5", "6", "7", "8", "9" } }

IsDeviceName(s) == toLowerCase(s) \in DeviceNames

\* The last component of the name read as a path
LastComponent(name) == basename(name)

RejectedOnForm(name) ==
  name = <<>> \/ Len(name) > 255 \/ HasForbiddenChar(name) \/ OnlyDots(name)

(***************************************************************************)
(* C11: isValidFileName returns false for the empty name, a name of more   *)
(* than 255 characters, a name with a control character or one of          *)
(* < > : " | ? *, and a name of dots only; it returns true for every other *)
(* name that is not a reserved device name.                                *)
(***************************************************************************)
C11_ValidUnlessRejected ==
  nvResult # <<>> =>
    /\ RejectedOnForm(nvInput) => nvResult[1] = FALSE
    /\ (~RejectedOnForm(nvInput) /\ ~IsDeviceName(WithoutExtension(nvInput)))
         => nvResult[1] = TRUE

\* C11 with the reserved device name looked for in the last component of the
\* name read as a path.
C11_ValidUnlessRejectedComponent ==
  nvResult # <<>> =>
    /\ RejectedOnForm(nvInput) => nvResult[1] = FALSE
    /\ (~RejectedOnForm(nvInput)
          /\ ~IsDeviceName(WithoutExtension(LastComponent(nvInput))))
         => nvResult[1] = TRUE

\* A name of 255 characters has been accepted.
C11_Witness ==
  /\ nvResult = <<TRUE>>
  /\ Len(nvInput) = 255

(***************************************************************************)
(* C12: isValidFileName rejects every name that, stripped of its           *)
(* extension, is one of CON, PRN, AUX, NUL, COM1-COM9, LPT1-LPT9 in any    *)
(* letter case, and rejects on these grounds no other name: a name it      *)
(* rejects that has none of the forbidden forms is one of these.           *)
(***************************************************************************)
C12_ReservedExactly ==
  nvResult # <<>> =>
    /\ IsDeviceName(WithoutExtension(nvInput)) => nvResult[1] = FALSE
    /\ (nvResult[1] = FALSE /\ ~RejectedOnForm(nvInput))
         => IsDeviceName(WithoutExtension(nvInput))

\* C12 with the device name looked for in the last component of the name
\* read as a path.
C12_ReservedComponentExactly ==
  nvResult # <<>> =>
    /\ IsDeviceName(WithoutExtension(LastComponent(nvInput))) => nvResult[1] = FALSE
    /\ (nvResult[1] = FALSE /\ ~RejectedOnForm(nvInput))
         => IsDeviceName(WithoutExtension(LastComponent(nvInput)))

\* CoM1.t has been rejected
C12_Witness ==
  /\ nvResult = <<FALSE>>
  /\ nvInput = <<"C", "o", "M", "1", ".", "t">>

(***************************************************************************)
(* C13: rename, upload and createFolder apply the validator to the name    *)
(* before any filesystem mutation: a call with a name the validator        *)
(* rejects (rename: on an existing source) ends at once with the           *)
(* invalid-name error and the filesystem as it was, and no call is ever    *)
(* waiting on a filesystem call for a rejected name.                       *)
(***************************************************************************)
\* The names the validator accepts, in the terms of its rules
Acceptable(name) ==
  ~RejectedOnForm(name) /\ ~IsDeviceName(WithoutExtension(LastComponent(name)))

InvalidNameMessages ==
  { InvalidName, ControllerInvalidName, UploadInvalidName, InvalidFolderName }

\* The request c begins with this step
Begins(c, op) == cl[c].pc = "idle" /\ cl'[c].op = op

\* The name the request begins with is one the validator rejects
BeginsWithRejectedName(c) ==
  \/ /\ Begins(c, "rename") /\ cl'[c].relativePath # <<>> /\ cl'[c].name # <<>>
     /\ resolvePath(cl'[c].relativePath).path \in DOMAIN fs
     /\ ~Acceptable(cl'[c].name)
  \/ Begins(c, "createFolder") /\ ~Acceptable(cl'[c].name)
  \/ Begins(c, "upload") /\ ~Acceptable(cl'[c].files[1].filename)

\* The name a call names in the filesystem call it waits on
NameInFlight(c) ==
  IF cl[c].pc \in { "upload_stat", "upload_check", "upload_write" }
  THEN <<cl[c].files[cl[c].idx].filename>>
  ELSE IF cl[c].pc \in { "rename_call", "mkdir_call" } THEN <<cl[c].name>>
  ELSE <<>>

Steps(c, pc) == cl[c].pc = pc /\ cl'[c] # cl[c]

\* The request ends in this step with the error message and no change
FailsWith(c, message) ==
  /\ cl'[c].pc = "done"
  /\ resp'[c].status = "error" /\ resp'[c].message = message
  /\ fs' = fs

\* The entry named name in the directory of the entry at abs
Sibling(abs, name) == dirname(abs) \o <<"/">> \o name

C14_NotFoundAndConflict ==
  [][\A c \in Clients :
       /\ (Steps(c, "rename_access") /\ cl[c].abs \notin DOMAIN fs)
            => FailsWith(c, EntryNotFound)
       /\ (Steps(c, "rename_check") /\ Sibling(cl[c].abs, cl[c].name) \in DOMAIN fs)
            => FailsWith(c, RenameConflict)
       /\ (Begins(c, "createFolder") /\ Acceptable(cl'[c].name)
             /\ resolvePath(cl'[c].relativePath).err = ""
             /\ (resolvePath(cl'[c].relativePath).path \o <<"/">> \o cl'[c].name)
                  \in DOMAIN fs)
            => FailsWith(c, FolderConflict)]_vars

\* A rename of a.t to a.t has ended with the conflict error, a rename of
\* the absent x with the not-found error
C14_Witness ==
  \E c, d \in Clients :
    /\ cl[c].pc = "done" /\ cl[c].op = "rename" /\ cl[c].relativePath = P_at
    /\ cl[c].name = P_at /\ resp[c].message = RenameConflict
    /\ cl[d].pc = "done" /\ cl[d].op = "rename" /\ cl[d].relativePath = P_x
    /\ resp[d].message = EntryNotFound
    /\ fs = InitialFs

(***************************************************************************)
(* C15: when a child c of the directory X has been renamed to n with       *)
(* success, a list of X made afterwards has an entry named n of c's type   *)
(* (and size, for a file), none named c, and the other children as they    *)
(* were; when c has been deleted with success, the list has no entry named *)
(* c and the other children as they were.                                  *)
(***************************************************************************)
\* Name, type and size of the direct children of the directory at abs in f
ChildrenIn(f, abs) ==
  { [name |-> basename(q), type |-> f[q].type,
     size |-> IF f[q].type = "file" THEN Len(f[q].content) ELSE 0] :
      q \in { r \in DOMAIN f : r # abs /\ dirname(r) = abs } }

\* Name, type and size of the children a listing reports
ChildrenListed(r) ==
  { [name |-> r.data[k].name, type |-> r.data[k].type, size |-> r.data[k].size] :
      k \in 2..Len(r.data) }

\* a changed an entry of the root alone and with success, then b listed the
\* root with success, and nothing else has run
ListedAfter(a, b, op) ==
  /\ a # b
  /\ cl[a].pc = "done" /\ cl[a].op = op /\ resp[a].status = "success"
  /\ cl[a].after = {} /\ dirname(cl[a].abs) = ROOT_DIR
  /\ cl[b].pc = "done" /\ cl[b].op = "list" /\ resp[b].status = "success"
  /\ cl[b].after = {a} /\ cl[b].abs = ROOT_DIR
  /\ \A o \in Clients \ {a, b} : cl[o].pc = "idle"

C15_ListReflectsRenameAndDelete ==
  \A a, b \in Clients :
    LET before == ChildrenIn(InitialFs, ROOT_DIR)
        c == CHOOSE x \in before : x.name = basename(cl[a].abs)
        listed == ChildrenListed(resp[b])
    IN /\ ListedAfter(a, b, "rename") =>
            /\ [c EXCEPT !.name = cl[a].name] \in listed
            /\ \A x \in listed : x.name # c.name
            /\ { x \in listed : x.name # cl[a].name } = before \ {c}
       /\ ListedAfter(a, b, "delete") => listed = before \ {c}

(***************************************************************************)
(* C16: delete of an existing entry removes the entry and, for a           *)
(* directory, all its descendants, leaves every other entry as it is and   *)
(* returns the type the entry had; delete of an absent path fails with     *)
(* NotFound and changes nothing.  The entry is taken to be, when it is     *)
(* removed, of the type fs.stat found.                                     *)
(***************************************************************************)
\* The entry at abs and what lies below it
Subtree(f, abs) == { q \in DOMAIN f : q = abs \/ StartsWith(q, abs \o <<"/">>) }

C16_DeleteRemovesSubtree ==
  [][\A c \in Clients :
       /\ (Steps(c, "delete_remove") /\ cl[c].abs \in DOMAIN fs
             /\ fs[cl[c].abs].type = cl[c].stats.type)
            => /\ DOMAIN fs' = DOMAIN fs \ Subtree(fs, cl[c].abs)
               /\ \A q \in DOMAIN fs' : fs'[q] = fs[q]
               /\ cl'[c].pc = "done" /\ resp'[c].status = "success"
               /\ resp'[c].data[1].type = fs[cl[c].abs].type
       /\ (Steps(c, "delete_access") /\ cl[c].abs \notin DOMAIN fs)
            => FailsWith(c, EntryNotFound)]_vars

\* The directory d has been deleted with its two files, the absent x has not
C16_Witness ==
  \E c, d \in Clients :
    /\ cl[c].pc = "done" /\ cl[c].op = "delete" /\ cl[c].relativePath = P_d
    /\ resp[c].status = "success" /\ resp[c].data[1].type = "directory"
    /\ cl[d].pc = "done" /\ cl[d].op = "delete" /\ cl[d].relativePath = P_x
    /\ resp[d].message = EntryNotFound
    /\ DOMAIN fs = DOMAIN InitialFs \ Subtree(InitialFs, ROOT_DIR \o <<"/">> \o P_d)
    /\ Cardinality(Subtree(InitialFs, ROOT_DIR \o <<"/">> \o P_d)) = 3

(***************************************************************************)
(* C17: the children of a directory listing are ordered with all           *)
(* directories before all files and within each group by name in           *)
(* case-sensitive ordinal (code unit) order, B.txt before a.txt.           *)
(***************************************************************************)
\* The characters of the names in the order of their code units
CodeUnitOrder ==
  <<".", "/", "0", "1", "2", "3", "4", "5", "6", "7", "8", "9">> \o UpperCase
    \o <<"\\", "_">> \o LowerCase

CodeUnit(ch) == CHOOSE i \in 1..Len(CodeUnitOrder) : CodeUnitOrder[i] = ch

RECURSIVE OrdinalBefore(_, _)
OrdinalBefore(a, b) ==
  IF b = <<>> THEN FALSE
  ELSE IF a = <<>> THEN TRUE
  ELSE IF a[1] = b[1] THEN OrdinalBefore(Tail(a), Tail(b))
  ELSE CodeUnit(a[1]) < CodeUnit(b[1])

\* The children of a listing of a directory that has been returned
ListedChildren(c) == Tail(resp[c].data)

DirectoryListed(c) ==
  /\ cl[c].pc = "done" /\ cl[c].op = "list" /\ resp[c].status = "success"
  /\ resp[c].data[1].type = "directory"

DirectoriesFirst(children) ==
  \A i, j \in 1..Len(children) :
    i < j => children[i].type = "directory" \/ children[j].type = "file"

C17_OrdinalOrder ==
  \A c \in Clients : DirectoryListed(c) =>
    /\ DirectoriesFirst(ListedChildren(c))
    /\ \A i, j \in 1..Len(ListedChildren(c)) :
         (i < j /\ ListedChildren(c)[i].type = ListedChildren(c)[j].type)
           => OrdinalBefore(ListedChildren(c)[i].name, ListedChildren(c)[j].name)

\* C17 with the order of String.prototype.localeCompare within each group
C17_LocaleOrder ==
  \A c \in Clients : DirectoryListed(c) =>
    /\ DirectoriesFirst(ListedChildren(c))
    /\ \A i, j \in 1..Len(ListedChildren(c)) :
         (i < j /\ ListedChildren(c)[i].type = ListedChildren(c)[j].type)
           => localeCompare(ListedChildren(c)[i].name, ListedChildren(c)[j].name) < 0

\* The directory d has been listed with its files c and D.T in this order
C17_Witness ==
  \E c \in Clients :
    /\ DirectoryListed(c)
    /\ Len(ListedChildren(c)) = 2
    /\ ListedChildren(c)[1].name = <<"c">>
    /\ ListedChildren(c)[2].name = <<"D", ".", "T">>

(***************************************************************************)
(* C18: list of a directory returns one child Entry per direct child whose *)
(* stat succeeds, no deeper descendant, a child directory with size 0 and  *)
(* no children; a child whose stat fails is left out and the listing does  *)
(* not fail; list of a file returns the one Entry of the file; list of a   *)
(* missing target fails with NotFound.                                     *)
(***************************************************************************)
\* No other request has run while b ran
RanAlone(b) == \A o \in Clients \ {b} : o \in cl[b].after \/ cl[o].pc = "idle"

\* The child whose fs.stat the step of the loop has made
StatChild(c) == CHOOSE e \in cl[c].entries : e \notin cl'[c].entries

Projected(children) ==
  { [name |-> x.name, type |-> x.type, size |-> x.size] : x \in children }

C18_ListIsOneLevel ==
  /\ [](\A b \in Clients :
          (DirectoryListed(b) /\ RanAlone(b)) =>
            /\ ChildrenListed(resp[b]) = ChildrenIn(fs, cl[b].abs)
            /\ Len(ListedChildren(b)) = Cardinality(ChildrenIn(fs, cl[b].abs)))
  /\ [][\A c \in Clients :
          /\ Steps(c, "list_child") =>
               /\ (cl[c].abs \o <<"/">> \o StatChild(c)) \notin DOMAIN fs
                    => cl'[c].children = cl[c].children
               /\ (cl[c].abs \o <<"/">> \o StatChild(c)) \in DOMAIN fs
                    => /\ Cardinality(cl'[c].children) = Cardinality(cl[c].children) + 1
                       /\ \E x \in cl'[c].children : x.name = StatChild(c)
               /\ cl'[c].pc = "done"
                    => /\ resp'[c].status = "success"
                       /\ ChildrenListed(resp'[c]) = Projected(cl'[c].children)
          /\ (Steps(c, "list_stat") /\ IsFile(fs, cl[c].abs))
               => /\ cl'[c].pc = "done" /\ resp'[c].status = "success"
                  /\ Len(resp'[c].data) = 1 /\ resp'[c].data[1].type = "file"
          /\ (Steps(c, "list_access") /\ cl[c].abs \notin DOMAIN fs)
               => FailsWith(c, ListNotFound)]_vars

\* The root has been listed while a.t or d was deleted: the listing has
\* the one child that was left
C18_Witness ==
  \E c, d \in Clients :
    /\ DirectoryListed(c) /\ cl[c].abs = ROOT_DIR
    /\ Len(ListedChildren(c)) = 1
    /\ cl[d].pc = "done" /\ cl[d].op = "delete" /\ resp[d].status = "success"
    /\ d \notin cl[c].after /\ c \notin cl[d].after

(***************************************************************************)
(* C19: in every Entry returned by list, extension is present only when    *)
(* the type is file, and its value is empty or a dot followed by the       *)
(* file's extension in lower case.                                         *)
(***************************************************************************)
\* What the name has from its last dot on, when that dot is not its first
\* character
Suffix(name) == SubSeqFrom(name, Len(WithoutExtension(name)) + 1)

\* The Entries of a listing that has been returned
EntriesListed(c) ==
  IF cl[c].pc = "done" /\ cl[c].op = "list" /\ resp[c].status = "success"
  THEN { resp[c].data[k] : k \in 1..Len(resp[c].data) }
  ELSE {}

C19_ExtensionLowerCase ==
  \A c \in Clients : \A e \in EntriesListed(c) :
    /\ e.hasExtension => e.type = "file"
    /\ e.hasExtension => e.extension = toLowerCase(Suffix(e.name))

\* C19 with the extension in the letter case it has in the name
C19_ExtensionAsNamed ==
  \A c \in Clients : \A e \in EntriesListed(c) :
    /\ e.hasExtension => e.type = "file"
    /\ e.hasExtension => e.extension = Suffix(e.name)

\* A listing has the file D.T with the extension .T, the file c with the
\* empty extension and a directory without extension
C19_Witness ==
  \E c \in Clients :
    /\ \E e \in EntriesListed(c) : e.name = <<"D", ".", "T">> /\ e.extension = <<".", "T">>
    /\ \E e \in EntriesListed(c) : e.name = <<"c">> /\ e.hasExtension /\ e.extension = <<>>
    /\ \E e \in EntriesListed(c) : e.type = "directory" /\ ~e.hasExtension

(***************************************************************************)
(* C20: download fails with NotFound when fs.stat finds the target absent  *)
(* or a directory, upload fails with NotFound when fs.stat finds the       *)
(* target path absent or not a directory; in both failures nothing is      *)
(* handed to the caller and nothing is written, and the wrong kind of      *)
(* entry gets the error of the missing one.                                *)
(***************************************************************************)
C20_WrongKindIsNotFound ==
  [][\A c \in Clients :
       /\ (Steps(c, "download_stat") /\ ~IsFile(fs, cl[c].abs))
            => FailsWith(c, DownloadNotFound) /\ resp'[c].data = <<>>
       /\ (Steps(c, "upload_stat") /\ ~IsDirectory(fs, cl[c].abs))
            => FailsWith(c, TargetNotFound) /\ resp'[c].data = <<>>]_vars

\* A download of the directory d and an upload into the file a.t have both
\* ended with their not-found error
C20_Witness ==
  \E c, d \in Clients :
    /\ cl[c].pc = "done" /\ cl[c].op = "download" /\ cl[c].relativePath = P_d
    /\ resp[c].message = DownloadNotFound
    /\ cl[d].pc = "done" /\ cl[d].op = "upload" /\ cl[d].relativePath = P_at
    /\ resp[d].message = TargetNotFound
    /\ fs = InitialFs

(***************************************************************************)
(* C21: resolvePath("") and resolvePath("/") succeed and return exactly    *)
(* the root directory.                                                     *)
(***************************************************************************)
C21_RootResolvesToRoot ==
  (rpResult # <<>> /\ rpInput \in { <<>>, <<"/">> }) =>
    rpResult[1] = [err |-> "", path |-> ROOT_DIR]

\* resolvePath("/") has returned
C21_Witness == rpResult # <<>> /\ rpInput = <<"/">>

(***************************************************************************)
(* C28: the result of sanitizePath has no ".." path segment and does not   *)
(* begin with a path separator, whatever the input.                        *)
(***************************************************************************)
C28_SanitizedIsClean ==
  rpResult # <<>> =>
    /\ ~HasDotDotSegment(sanitizePath(rpInput))
    /\ sanitizePath(rpInput) # <<>> => ~IsSlash(sanitizePath(rpInput)[1])

(***************************************************************************)
(* C22: the rate limiter counts the requests of each client address in a   *)
(* window of RATE_LIMIT_WINDOW ms that starts at the first request counted.*)
(* The first MAX_REQUESTS requests of a window are admitted and no more;   *)
(* each later request of the window is answered 429 and reaches no         *)
(* controller; the first request after the reset time is admitted and the  *)
(* record of the address restarts at count 1 with a new reset time.        *)
(***************************************************************************)
C22_FixedWindow ==
  /\ \A ip \in DOMAIN rlWindow :
       rlWindow[ip].admitted =
         (IF rlWindow[ip].seen > MAX_REQUESTS THEN MAX_REQUESTS ELSE rlWindow[ip].seen)
  /\ \A ip \in DOMAIN rlMap :
       /\ ip \in DOMAIN rlWindow
       /\ rlMap[ip] = Record(rlWindow[ip].seen, rlWindow[ip].start + RATE_LIMIT_WINDOW)
  /\ rlLast.ip # "" =>
       /\ (rlWindow[rlLast.ip].seen > MAX_REQUESTS) <=> (rlLast.status = TooManyRequests)
       /\ rlLast.status = TooManyRequests => (~rlLast.allowed /\ rlLast.handler = "")
       /\ rlWindow[rlLast.ip].seen = 1 => rlLast.allowed

\* A request beyond the hundredth of its window has arrived at the very
\* reset time of the window and has been answered 429.
C22_Witness ==
  /\ rlLast.status = TooManyRequests
  /\ rlNow = rlWindow[rlLast.ip].start + RATE_LIMIT_WINDOW

(***************************************************************************)
(* C23: the loop of parseMultipart ends on every buffer: the position      *)
(* stays within the buffer, and every turn of the loop either leaves the   *)
(* loop or goes on from a strictly greater position, the turns that skip a *)
(* part included.                                                          *)
(***************************************************************************)
C23_ScanAdvances ==
  /\ [](ssScan # <<>> => ssScan[1].position \in 0..Len(ssBuffer))
  /\ [][(ssScan # <<>> /\ ssScan' # ssScan) =>
          (ssScan'[1].done \/ ssScan'[1].position > ssScan[1].position)]_vars

\* The loop has ended on a buffer whose first part it skipped and in which
\* it decoded a later part.
C23_Witness ==
  /\ ssScan # <<>> /\ ssScan[1].done
  /\ LET first == iterate(ssBuffer, <<"-", "-">> \o Boundary, 0,
                          [fields |-> EmptyObject, files |-> <<>>])
     IN ~first.done /\ first.result.fields = EmptyObject
  /\ ssScan[1].result.fields # EmptyObject

(***************************************************************************)
(* C24: a part without the empty line between headers and body, or without *)
(* Content-Disposition header, is skipped, and the result of parseMultipart*)
(* is the one it returns on the form without the malformed parts.          *)
(***************************************************************************)
C24_MalformedPartsSkipped ==
  mpResult # <<>> =>
    mpResult[1] = parseMultipart(Encode(SelectSeq(mpParts, WellFormed)), Boundary)

\* A form of a part without separator, a part without Content-Disposition
\* and a file has been decoded, and the file is in the result.
C24_Witness ==
  /\ mpResult # <<>>
  /\ Len(mpParts) = 3
  /\ mpParts[1].form = "noSeparator"
  /\ mpParts[2].form = "noDisposition"
  /\ IsFilePart(mpParts[3])
  /\ Len(mpResult[1].files) = 1

(***************************************************************************)
(* C29: the cleanup timer changes no decision of the rate limiter: every   *)
(* request is let pass or rejected as it is in the execution in which the  *)
(* timer never fires.                                                      *)
(***************************************************************************)
C29_CleanupChangesNoDecision ==
  rlLast.ip # "" => rlLast.allowed = rlLast.never

\* A request has been decided after the timer removed the record of its
\* address.
C29_Witness ==
  /\ rlLast.ip # "" /\ rlLast.cleaned

(***************************************************************************)
(* C30: the upload controller sends at most one response on a request,     *)
(* whatever the stream emits; and once it has answered 413 the body is not *)
(* handed to parseMultipart and no file is stored.                         *)
(***************************************************************************)
C30_OneResponse ==
  /\ Len(uc.sent) <= 1
  /\ (\E i \in 1..Len(uc.sent) : uc.sent[i] = 413) => (~uc.parsed /\ uc.results = 0)

(***************************************************************************)
(* C26: the path listFiles gives a child resolves to that child: for a     *)
(* directory X that is listed and a name an entry of it can have,          *)
(* resolvePath of path.join(X, name) is resolvePath(X) joined with name.   *)
(***************************************************************************)
\* The names an entry of a directory can have on the host
ChildName(name) ==
  /\ name # <<>>
  /\ \A i \in 1..Len(name) : name[i] # "/"
  /\ name \notin { <<".">>, DotDot }

ListedDirectories == { P_root, P_d }

C26_ChildPathResolvesToChild ==
  (rpResult # <<>> /\ ChildName(rpInput)) =>
    \A X \in ListedDirectories :
      resolvePath(join(X, rpInput)) =
        [err |-> "", path |-> join(resolvePath(X).path, rpInput)]

(***************************************************************************)
(* C25: the root directory is never removed, renamed or replaced: whatever *)
(* the calls and their path arguments, the root exists as a directory at   *)
(* its location.                                                           *)
(***************************************************************************)
C25_RootRemains == IsDirectory(fs, ROOT_DIR)

(***************************************************************************)
(* C27: rename never replaces an entry.  Two concurrent renames of two     *)
(* entries to one destination: at most one succeeds, the other fails with  *)
(* the conflict message, and every file the server started with is still   *)
(* there with its content, under its name or the new one.                  *)
(***************************************************************************)
Concurrent(a, b) == a \notin cl[b].after /\ b \notin cl[a].after

\* The two requests were concurrent renames of different entries to one
\* destination, and both have ended
RenamedToOne(a, b) ==
  /\ a # b
  /\ cl[a].op = "rename" /\ cl[a].pc = "done"
  /\ cl[b].op = "rename" /\ cl[b].pc = "done"
  /\ Concurrent(a, b)
  /\ cl[a].abs # cl[b].abs
  /\ cl[a].dest # <<>> /\ cl[a].dest = cl[b].dest

FilesOf(f) == { q \in DOMAIN f : f[q].type = "file" }

C27_RenameNeverReplaces ==
  \A a, b \in Clients :
    RenamedToOne(a, b) =>
      /\ ~(RenameSucceeded(a) /\ RenameSucceeded(b))
      /\ RenameSucceeded(a) => resp[b] = Failure(500, RenameConflict)
      /\ \A q \in FilesOf(InitialFs) : \E p \in FilesOf(fs) : fs[p] = InitialFs[q]

====
